---- MODULE Spec2Model ----
(***************************************************************************)
(* The JSM -> BigQuery incremental puller (jsm-puller/src/index.ts) as a   *)
(* state machine: a fixed number of runs of main(), each one resolving its *)
(* configuration, reading its secrets, paging through the Jira search API, *)
(* appending its batch to the staging table and executing the merge script *)
(* against the shared staging and target tables.                           *)
(*                                                                         *)
(* Of the twenty-one columns of a row the model keeps key, summary,        *)
(* updated, sla_breached and last_sync.  The sixteen other normalized      *)
(* columns are copied by the fetcher and by the MERGE exactly as summary   *)
(* and updated are; the two mappers that shape custom fields on the way    *)
(* (cascadingToString, multiSelectToArray) are modelled on their own, and  *)
(* so is the HTTP endpoint that starts the job (trigger-refresh).          *)
(***************************************************************************)
EXTENDS Integers, Sequences, FiniteSets, TLC

(* ------------------------------ bounds --------------------------------- *)

\* Number of runs of main() in one behaviour; they may overlap.
NumRuns == 2

\* Largest number of issues the modelled Jira returns to one fetch, summed
\* over its pages.
MaxBatch == 2

\* Largest issue version the modelled Jira holds (version v has summary
\* "s<v>" and updated = v).
MaxVersion == 2

(* --------------------------- values and rows --------------------------- *)

Runs == 1..NumRuns

\* JavaScript null / SQL NULL of a string column.
NULL == "null"

\* SQL NULL of the TIMESTAMP column last_sync; merge times are 1, 2, ...
NullTime == 0

Keys == {"K1", "K2"}

Summary(v) == IF v = 1 THEN "s1" ELSE IF v = 2 THEN "s2" ELSE "s3"

\* JiraIssue: key may be absent (null) or empty.
RawIssues ==
  { [key |-> k, summary |-> Summary(v), updated |-> v] :
      k \in Keys, v \in 1..MaxVersion }
  \cup { [key |-> k, summary |-> Summary(1), updated |-> 1] : k \in {NULL, ""} }

\* Array.prototype.push
Push(seq, x) == Append(seq, x)

\* A row that carries the time of the fetch: `last_sync: Date.now()`.
RowStamped(issue) ==
  [ key          |-> issue.key,
    summary      |-> issue.summary,
    updated      |-> issue.updated,
    sla_breached |-> NULL,
    last_sync    |-> 1 ]

\* The BigQueryRow built from one issue in the loop body of fetchIssuesSince.
Row(issue) ==
  [ key          |-> issue.key,
    summary      |-> issue.summary,
    updated      |-> issue.updated,
    sla_breached |-> NULL,
    last_sync    |-> NullTime ]

\* `if (row.key !== null)`: the empty string passes.
TruthyNotNull(key) == key # NULL

\* `if (row.key)`: null and the empty string are falsy.
Truthy(key) == key # NULL /\ key # ""

\* The for-loop over data.issues: rows.push(row) for every row with a key.
RECURSIVE PushIssues(_, _)
PushIssues(rows, issues) ==
  IF issues = <<>> THEN rows
  ELSE PushIssues(IF Truthy(Row(Head(issues)).key)
                    THEN Push(rows, Row(Head(issues)))
                    ELSE rows,
                  Tail(issues))

KeysOf(tbl) == { tbl[i].key : i \in 1..Len(tbl) }

(* ------------------------- strings and validators ---------------------- *)

\* Strings the validators inspect are sequences of one-character strings.
Digits == {"0", "1", "2", "3", "4", "5", "6", "7", "8", "9"}

LowerCase ==
  {"a", "b", "c", "d", "e", "f", "g", "h", "i", "j", "k", "l", "m",
   "n", "o", "p", "q", "r", "s", "t", "u", "v", "w", "x", "y", "z"}

\* Value of a string of digits.
DigitVal(c) ==
  CASE c = "0" -> 0 [] c = "1" -> 1 [] c = "2" -> 2 [] c = "3" -> 3
    [] c = "4" -> 4 [] c = "5" -> 5 [] c = "6" -> 6 [] c = "7" -> 7
    [] c = "8" -> 8 [] OTHER -> 9

TwoDigits(s, i) == 10 * DigitVal(s[i]) + DigitVal(s[i + 1])

\* /^[a-z0-9_-]+$/
validateGCPIdentifier(identifier) ==
  /\ Len(identifier) >= 1
  /\ \A i \in 1..Len(identifier) :
       identifier[i] \in LowerCase \cup Digits \cup {"_", "-"}

\* The same pattern with the i flag: /^\d{4}-...(\.\d{1,3})?Z$/i
Iso8601ShapeIgnoreCase(s) ==
  /\ Len(s) \in {20, 22, 23, 24}
  /\ \A i \in {1, 2, 3, 4, 6, 7, 9, 10, 12, 13, 15, 16, 18, 19} : s[i] \in Digits
  /\ s[5] = "-" /\ s[8] = "-" /\ s[11] \in {"T", "t"} /\ s[14] = ":" /\ s[17] = ":"
  /\ s[Len(s)] \in {"Z", "z"}
  /\ Len(s) > 20 => /\ s[20] = "."
                    /\ \A i \in 21..(Len(s) - 1) : s[i] \in Digits

\* /^\d{4}-\d{2}-\d{2}T\d{2}:\d{2}:\d{2}(\.\d{1,3})?Z$/
Iso8601Shape(s) ==
  /\ Len(s) \in {20, 22, 23, 24}
  /\ \A i \in {1, 2, 3, 4, 6, 7, 9, 10, 12, 13, 15, 16, 18, 19} : s[i] \in Digits
  /\ s[5] = "-" /\ s[8] = "-" /\ s[11] = "T" /\ s[14] = ":" /\ s[17] = ":"
  /\ s[Len(s)] = "Z"
  /\ Len(s) > 20 => /\ s[20] = "."
                    /\ \A i \in 21..(Len(s) - 1) : s[i] \in Digits

\* new Date(dateString) of a string of that shape is a valid date when the
\* month is 01..12, the day 01..31, and the time is at most 23:59:59 or is
\* exactly 24:00:00 with a zero fraction.
DateParses(s) ==
  /\ TwoDigits(s, 6) \in 1..12
  /\ TwoDigits(s, 9) \in 1..31
  /\ TwoDigits(s, 15) \in 0..59
  /\ TwoDigits(s, 18) \in 0..59
  /\ \/ TwoDigits(s, 12) \in 0..23
     \/ /\ TwoDigits(s, 12) = 24
        /\ TwoDigits(s, 15) = 0
        /\ TwoDigits(s, 18) = 0
        /\ \A i \in 21..(Len(s) - 1) : s[i] = "0"

validateISO8601(dateString) ==
  Iso8601Shape(dateString) /\ DateParses(dateString)

\* /^[0-9]{4}-[0-9]{2}-[0-9]{2}T[0-9]{2}:[0-9]{2}:[0-9]{2}(?:\.[0-9]+)?Z$/, the
\* validator of the earlier revision of the puller: a fraction of any length.
isIso8601Z(value) ==
  /\ Len(value) = 20 \/ Len(value) >= 22
  /\ \A i \in {1, 2, 3, 4, 6, 7, 9, 10, 12, 13, 15, 16, 18, 19} :
       value[i] \in Digits
  /\ value[5] = "-" /\ value[8] = "-" /\ value[11] = "T"
  /\ value[14] = ":" /\ value[17] = ":"
  /\ value[Len(value)] = "Z"
  /\ Len(value) > 20 => /\ value[20] = "."
                        /\ \A i \in 21..(Len(value) - 1) : value[i] \in Digits

\* A mutant of TriggerValidateISO8601: the pattern with the i flag.
TriggerValidateIgnoreCase(dateString) ==
  Iso8601ShapeIgnoreCase(dateString) /\ DateParses(dateString)

\* validateISO8601 of the trigger endpoint: the same pattern,
\* /^\d{4}-\d{2}-\d{2}T\d{2}:\d{2}:\d{2}(\.\d{1,3})?Z$/, then new Date.
TriggerValidateISO8601(dateString) ==
  Iso8601Shape(dateString) /\ DateParses(dateString)

\* /^[a-z0-9-]+$/, the identifier pattern of the earlier revision.
IDENT_RE(identifier) ==
  /\ Len(identifier) >= 1
  /\ \A i \in 1..Len(identifier) :
       identifier[i] \in LowerCase \cup Digits \cup {"-"}

(* ------------------------------- Date ---------------------------------- *)

\* Times are whole seconds since 1970-01-01T00:00:00Z plus a millisecond part
\* 0..999 kept beside them.

\* Day number of a civil date (ECMAScript MakeDay): days since 1970-01-01.
\* A day past the end of its month runs into the next month.
DaysFromCivil(year, month, day) ==
  LET y   == IF month <= 2 THEN year - 1 ELSE year
      era == y \div 400
      yoe == y - era * 400
      mp  == IF month > 2 THEN month - 3 ELSE month + 9
      doy == (153 * mp + 2) \div 5 + day - 1
      doe == yoe * 365 + yoe \div 4 - yoe \div 100 + doy
  IN  era * 146097 + doe - 719468

\* Civil date of a day number (ECMAScript YearFromTime, MonthFromTime,
\* DateFromTime).
CivilFromDays(z) ==
  LET zz  == z + 719468
      era == zz \div 146097
      doe == zz - era * 146097
      yoe == (doe - doe \div 1460 + doe \div 36524 - doe \div 146096) \div 365
      doy == doe - (365 * yoe + yoe \div 4 - yoe \div 100)
      mp  == (5 * doy + 2) \div 153
      d   == doy - (153 * mp + 2) \div 5 + 1
      m   == IF mp < 10 THEN mp + 3 ELSE mp - 9
  IN  [year |-> yoe + era * 400 + (IF m <= 2 THEN 1 ELSE 0),
       month |-> m, day |-> d]

DigitChar(n) == <<"0", "1", "2", "3", "4", "5", "6", "7", "8", "9">>[n + 1]

Pad2(n) == <<DigitChar(n \div 10), DigitChar(n % 10)>>

Pad3(n) == <<DigitChar(n \div 100)>> \o Pad2(n % 100)

Pad4(n) == Pad2(n \div 100) \o Pad2(n % 100)

\* Date.prototype.toISOString: "YYYY-MM-DDTHH:mm:ss.sssZ".
toISOString(sec, ms) ==
  LET date == CivilFromDays(sec \div 86400)
      tod  == sec % 86400
  IN  Pad4(date.year) \o <<"-">> \o Pad2(date.month) \o <<"-">>
        \o Pad2(date.day) \o <<"T">> \o Pad2(tod \div 3600) \o <<":">>
        \o Pad2((tod % 3600) \div 60) \o <<":">> \o Pad2(tod % 60)
        \o <<".">> \o Pad3(ms) \o <<"Z">>

\* new Date(dateString).getTime() of a string validateISO8601 accepts, in
\* whole seconds.
getTime(s) ==
  DaysFromCivil(1000 * DigitVal(s[1]) + 100 * DigitVal(s[2]) + TwoDigits(s, 3),
                TwoDigits(s, 6), TwoDigits(s, 9)) * 86400
    + TwoDigits(s, 12) * 3600 + TwoDigits(s, 15) * 60 + TwoDigits(s, 18)

\* `Date.now() - 60 * 60`, in whole seconds.
OneHourAgoInSeconds(nowSec) == nowSec - (60 * 60) \div 1000

\* `Date.now() - 60 * 60 * 1000`, in whole seconds.
OneHourAgo(nowSec) == nowSec - (60 * 60 * 1000) \div 1000

\* /^[A-Z]{2}$|^[a-z]+-[a-z]+\d+$/ on the default location "EU".
DefaultLocation == <<"E", "U">>

UpperCase ==
  {"A", "B", "C", "D", "E", "F", "G", "H", "I", "J", "K", "L", "M",
   "N", "O", "P", "Q", "R", "S", "T", "U", "V", "W", "X", "Y", "Z"}

validateLocation(location) ==
  \/ Len(location) = 2 /\ \A i \in 1..2 : location[i] \in UpperCase
  \/ \E d \in 2..(Len(location) - 2), n \in 2..(Len(location) - 1) :
       /\ d < n
       /\ \A i \in 1..(d - 1) : location[i] \in LowerCase
       /\ location[d] = "-"
       /\ \A i \in (d + 1)..n : location[i] \in LowerCase
       /\ \A i \in (n + 1)..Len(location) : location[i] \in Digits

\* env("BQ_DATASET", "sre") and env("BQ_STAGING_TABLE", "jsm_tickets_staging")
\* with the variables unset.
DefaultDataset == <<"s", "r", "e">>

DefaultStagingTable ==
  <<"j", "s", "m", "_", "t", "i", "c", "k", "e", "t", "s", "_",
    "s", "t", "a", "g", "i", "n", "g">>

\* process.env.GCP_PROJECT: unset, a well-formed project id, a malformed one.
Unset == <<>>

ProjectInputs == { Unset, <<"d", "j", "-", "1">>, <<"D", "j">> }

\* process.env.SINCE: unset, "2025-01-01T00:00:00Z", "2025-1-1T00:00:00Z".
SinceValid ==
  <<"2", "0", "2", "5", "-", "0", "1", "-", "0", "1", "T",
    "0", "0", ":", "0", "0", ":", "0", "0", "Z">>

SinceUnpadded ==
  <<"2", "0", "2", "5", "-", "1", "-", "1", "T",
    "0", "0", ":", "0", "0", ":", "0", "0", "Z">>

SinceInputs == { Unset, SinceValid, SinceUnpadded }

\* Further values of SINCE: "2025-01-01T00:00:00.123Z", and strings that
\* differ from a well-formed one in one place.
Date0101 == <<"2", "0", "2", "5", "-", "0", "1", "-", "0", "1">>

Midnight == <<"0", "0", ":", "0", "0", ":", "0", "0">>

SinceMillis == Date0101 \o <<"T">> \o Midnight \o <<".", "1", "2", "3", "Z">>

SinceLongFraction ==
  Date0101 \o <<"T">> \o Midnight \o <<".", "1", "2", "3", "4", "Z">>

SinceEmptyFraction == Date0101 \o <<"T">> \o Midnight \o <<".", "Z">>

SinceNoZone == Date0101 \o <<"T">> \o Midnight

SinceLowerZ == Date0101 \o <<"T">> \o Midnight \o <<"z">>

SinceSpace == Date0101 \o <<" ">> \o Midnight \o <<"Z">>

SinceMonth13 ==
  <<"2", "0", "2", "5", "-", "1", "3", "-", "0", "1", "T">> \o Midnight \o <<"Z">>

SinceHour25 ==
  Date0101 \o <<"T", "2", "5", ":", "0", "0", ":", "0", "0", "Z">>

SinceQuote ==
  Date0101 \o <<"T">> \o Midnight \o <<"Z", "\"", " ", "o", "r", " ", "k", "e", "y">>

MoreSinceInputs ==
  SinceInputs \cup { SinceMillis, SinceLongFraction, SinceEmptyFraction,
                     SinceNoZone, SinceLowerZ, SinceSpace, SinceMonth13,
                     SinceHour25, SinceQuote }

\* const sinceIso = sinceEnv || new Date(Date.now() - 60 * 60 * 1000).toISOString()
SinceIso(sinceEnv, nowSec, nowMs) ==
  IF sinceEnv # Unset THEN sinceEnv ELSE toISOString(OneHourAgo(nowSec), nowMs)

\* The checks of main() before its first await in the earlier revision.
ConfigErrorEarlier(project, dataset, sinceEnv) ==
  IF project = Unset THEN "GCP_PROJECT required"
  ELSE IF dataset = Unset THEN "BQ_DATASET required"
  ELSE IF ~IDENT_RE(project) THEN "Invalid GCP_PROJECT"
  ELSE IF ~IDENT_RE(dataset) THEN "Invalid BQ_DATASET"
  ELSE IF sinceEnv # Unset /\ ~isIso8601Z(sinceEnv) THEN "Invalid SINCE"
  ELSE "ok"

\* main() without its check of SINCE.
ConfigErrorNoSince(project, dataset, stagingTable, location, sinceEnv) ==
  IF project = Unset THEN "GCP_PROJECT required"
  ELSE IF dataset = Unset THEN "BQ_DATASET required"
  ELSE IF ~validateGCPIdentifier(project) THEN "Invalid GCP_PROJECT"
  ELSE IF ~validateGCPIdentifier(dataset) THEN "Invalid BQ_DATASET"
  ELSE IF ~validateGCPIdentifier(stagingTable) THEN "Invalid BQ_STAGING_TABLE"
  ELSE IF ~validateLocation(location) THEN "Invalid BQ_LOCATION"
  ELSE "ok"

\* The checks of main() before its first await; the name of the first one
\* that throws, or "ok".
ConfigError(project, dataset, stagingTable, location, sinceEnv) ==
  IF project = Unset THEN "GCP_PROJECT required"
  ELSE IF dataset = Unset THEN "BQ_DATASET required"
  ELSE IF ~validateGCPIdentifier(project) THEN "Invalid GCP_PROJECT"
  ELSE IF ~validateGCPIdentifier(dataset) THEN "Invalid BQ_DATASET"
  ELSE IF ~validateGCPIdentifier(stagingTable) THEN "Invalid BQ_STAGING_TABLE"
  ELSE IF ~validateLocation(location) THEN "Invalid BQ_LOCATION"
  ELSE IF sinceEnv # Unset /\ ~validateISO8601(sinceEnv) THEN "Invalid SINCE"
  ELSE "ok"

(* ------------------------------ warehouse ------------------------------ *)

\* Positions of the staging rows S the ON clause T.key = S.key joins to t.
Matched(t, S) == { j \in 1..Len(S) : S[j].key = t.key }

\* BigQuery refuses a MERGE in which a target row matches more than one
\* source row ("UPDATE/MERGE must match at most one source row for each
\* target row").
MergeRejected(T, S) ==
  \E i \in 1..Len(T) : Cardinality(Matched(T[i], S)) > 1

\* The UPDATE SET list without its last line, last_sync = CURRENT_TIMESTAMP().
UpdateSetNoStamp(t, s, currentTimestamp) ==
  [ key          |-> t.key,
    summary      |-> s.summary,
    updated      |-> s.updated,
    sla_breached |-> s.sla_breached,
    last_sync    |-> t.last_sync ]

\* An UPDATE SET list with sla_breached = COALESCE(S.sla_breached, FALSE).
UpdateSetBreached(t, s, currentTimestamp) ==
  [ key          |-> t.key,
    summary      |-> s.summary,
    updated      |-> s.updated,
    sla_breached |-> IF s.sla_breached = NULL THEN "false" ELSE s.sla_breached,
    last_sync    |-> currentTimestamp ]

\* WHEN MATCHED THEN UPDATE SET <every column> = S.<column>,
\*                              last_sync = CURRENT_TIMESTAMP()
UpdateSet(t, s, currentTimestamp) ==
  [ key          |-> t.key,
    summary      |-> s.summary,
    updated      |-> s.updated,
    sla_breached |-> s.sla_breached,
    last_sync    |-> currentTimestamp ]

\* WHEN NOT MATCHED THEN INSERT ROW: the staging rows no target row joins to.
NotMatched(T, S) ==
  SelectSeq(S, LAMBDA s : \A i \in 1..Len(T) : T[i].key # s.key)

\* A MERGE with one more branch: WHEN NOT MATCHED BY SOURCE THEN DELETE.
MergeDeleteUnmatched(T, S, currentTimestamp) ==
  [ i \in 1..Len(SelectSeq(T, LAMBDA t : Matched(t, S) # {})) |->
      LET t == SelectSeq(T, LAMBDA u : Matched(u, S) # {})[i] IN
        UpdateSet(t, S[CHOOSE j \in Matched(t, S) : TRUE], currentTimestamp) ]
  \o NotMatched(T, S)

\* A MERGE that stamps last_sync on every target row, matched or not.
MergeStampAll(T, S, currentTimestamp) ==
  [ i \in 1..Len(T) |->
      IF Matched(T[i], S) = {}
        THEN [T[i] EXCEPT !.last_sync = currentTimestamp]
      ELSE UpdateSet(T[i], S[CHOOSE j \in Matched(T[i], S) : TRUE],
                     currentTimestamp) ]
  \o NotMatched(T, S)

\* The target table after the MERGE statement.
Merge(T, S, currentTimestamp) ==
  [ i \in 1..Len(T) |->
      IF Matched(T[i], S) = {} THEN T[i]
      ELSE UpdateSet(T[i], S[CHOOSE j \in Matched(T[i], S) : TRUE],
                     currentTimestamp) ]
  \o NotMatched(T, S)

\* The script without its DELETE statement.
DeleteNothing(S) == S

\* DELETE ... WHERE key = <one key> in place of WHERE TRUE.
DeleteOneKey(S) ==
  IF S = <<>> THEN S ELSE SelectSeq(S, LAMBDA s : s.key # S[1].key)

\* DELETE FROM jsm_tickets_staging WHERE TRUE
DeleteStaging(S) == <<>>

\* An insert that drops the last row of the batch.
InsertRowsButLast(S, rows) == S \o SubSeq(rows, 1, Len(rows) - 1)

\* table(stagingTable).insert(rows): one streaming append of the batch.
InsertRows(S, rows) == S \o rows

\* `if (inserted >= 0)` in main.
ShouldMergeAlways(inserted) == inserted >= 0

\* `if (inserted > 0)` in main.
ShouldMerge(inserted) == inserted > 0

(* ------------------------------ Jira search ---------------------------- *)

\* maxResults=200 of the request URL.
PageSize == 200

\* Largest number of page requests of one fetch that a behaviour follows.
MaxRequests == 6

\* A smaller page size and the totals the modelled Jira declares.
SmallPage == 100

SmallTotal == 150

EvenTotal == 400

LargeTotal == 450

SeqsUpTo(S, n) == UNION { [1..k -> S] : k \in 0..n }

\* A successful JiraSearchResponse to the request at offset startAt carrying at
\* most `room` issues; Jira echoes the requested offset.
OkResponses(startAt, room, sizes, totals) ==
  { [issues |-> is, startAt |-> startAt, maxResults |-> m, total |-> t] :
      is \in SeqsUpTo(RawIssues, room), m \in sizes, t \in totals }

\* A paging field that the response does not carry.
Omitted == -1

\* `= 0` in the destructuring of data: the default of a field left out.
OrZero(x) == IF x = Omitted THEN 0 ELSE x

\* const { startAt: s = 0, maxResults: m = 0, total = 0 } = data
Paging(res) ==
  [startAt |-> OrZero(res.startAt), maxResults |-> OrZero(res.maxResults),
   total |-> OrZero(res.total)]

\* `if (s + m > total) break;`
LastPageStrict(data) == data.startAt + data.maxResults > data.total

\* `if (s + m >= total) break;`
LastPage(data) == data.startAt + data.maxResults >= data.total

\* `startAt += 200;`: the page size asked for, not the one declared.
NextStartAtRequested(startAt, data) == startAt + PageSize

\* `startAt += m;`
NextStartAt(startAt, data) == startAt + data.maxResults

\* The issues of a sequence of pages, in page order.
RECURSIVE Flatten(_)
Flatten(pageSeq) ==
  IF pageSeq = <<>> THEN <<>> ELSE Head(pageSeq) \o Flatten(Tail(pageSeq))

\* Array.prototype.at(-1)
Last(seq) == seq[Len(seq)]

(* ----------------------------- field mappers --------------------------- *)

\* Largest number of options in a multi-select field.
MaxOptions == 2

\* JavaScript values: undefined, null, strings, plain objects and arrays.
Undefined == [type |-> "undefined"]

Null == [type |-> "null"]

Str(chars) == [type |-> "string", chars |-> chars]

EmptyObject == [type |-> "object"]

\* JiraMultiSelectOption: { value?: string }
Option(value) == [type |-> "object", value |-> value]

\* JiraCascadingSelect: { value?: string; child?: { value?: string } }
Cascading(value, child) == [type |-> "object", value |-> value, child |-> child]

Array(items) == [type |-> "array", items |-> items]

\* o.name on a value that is neither undefined nor null.
Prop(o, name) ==
  IF o.type = "object" /\ name \in DOMAIN o THEN o[name] ELSE Undefined

Nullish(x) == x.type \in {"undefined", "null"}

\* o?.name
OptionalProp(o, name) == IF Nullish(o) THEN Undefined ELSE Prop(o, name)

\* x ?? y
Coalesce(x, y) == IF Nullish(x) THEN y ELSE x

\* Boolean(x), `!x` negated, `if (x)`: undefined, null and "" are falsy.
Boolean(x) ==
  CASE Nullish(x) -> FALSE
    [] x.type = "string" -> x.chars # <<>>
    [] OTHER -> TRUE

\* typeof x
typeof(x) ==
  CASE x.type = "undefined" -> "undefined"
    [] x.type = "string" -> "string"
    [] OTHER -> "object"

\* `${x}` for a string, null or undefined.
TemplateString(x) ==
  CASE x.type = "string" -> x.chars
    [] x.type = "null" -> <<"n", "u", "l", "l">>
    [] OTHER -> <<"u", "n", "d", "e", "f", "i", "n", "e", "d">>

\* A mapper that also returns a child that has no parent.
cascadingOrChild(cs) ==
  IF ~Boolean(cs) \/ typeof(cs) # "object" THEN Null
  ELSE LET parent == Coalesce(Prop(cs, "value"), Null)
           child == Coalesce(OptionalProp(Prop(cs, "child"), "value"), Null) IN
         IF Boolean(parent) /\ Boolean(child)
           THEN Str(TemplateString(parent) \o <<" ", ">", " ">>
                    \o TemplateString(child))
         ELSE IF Boolean(parent) THEN parent
         ELSE IF Boolean(child) THEN child
         ELSE Null

cascadingToString(cs) ==
  IF ~Boolean(cs) \/ typeof(cs) # "object" THEN Null
  ELSE LET parent == Coalesce(Prop(cs, "value"), Null)
           child == Coalesce(OptionalProp(Prop(cs, "child"), "value"), Null) IN
         IF Boolean(parent) /\ Boolean(child)
           THEN Str(TemplateString(parent) \o <<" ", ">", " ">>
                    \o TemplateString(child))
         ELSE IF Boolean(parent) THEN parent
         ELSE Null

\* ms.map((o) => o?.value)
OptionValues(items) ==
  [i \in 1..Len(items) |-> OptionalProp(items[i], "value")]

\* `return vals;`: the list is returned even when it is empty.
multiSelectOrEmpty(ms) ==
  IF ms.type # "array" THEN Null
  ELSE Array(SelectSeq(OptionValues(ms.items), Boolean))

multiSelectToArray(ms) ==
  IF ms.type # "array" THEN Null
  ELSE LET vals == SelectSeq(OptionValues(ms.items), Boolean) IN
         IF Len(vals) # 0 THEN Array(vals) ELSE Null

\* What customfield_10061 may hold: nothing, a value that is not an object,
\* and objects with every combination of parent and child.
FieldValues == { Undefined, Null, Str(<<>>), Str(<<"A">>), Str(<<"B">>) }

Children ==
  { Undefined, Null, EmptyObject, Str(<<"B">>) }
    \cup { Option(v) : v \in FieldValues }

CascadingInputs ==
  { Undefined, Null, Str(<<"A">>), Array(<<>>), EmptyObject,
    [type |-> "object", child |-> Option(Str(<<"B">>))] }
    \cup { Cascading(v, c) : v \in FieldValues, c \in Children }

\* What customfield_10090 and customfield_10083 may hold: nothing, a value
\* that is not an array, and arrays of options, of holes and of empty values.
Options ==
  { Undefined, Null, EmptyObject } \cup { Option(v) : v \in FieldValues }

MultiSelectInputs ==
  { Undefined, Null, Str(<<"A">>), Option(Str(<<"A">>)) }
    \cup { Array(items) : items \in SeqsUpTo(Options, MaxOptions) }

(* ------------------------------- settings ------------------------------ *)

\* An identifier the later revision accepts and the earlier one refuses.
ProjectUnderscore == <<"d", "j", "_", "1">>

MoreProjectInputs == ProjectInputs \cup { ProjectUnderscore }

\* The time of the first behaviour state, 2025-06-01T00:30:00Z, and the
\* times that may pass before a run starts.
StartTime == 1748737800

HalfHour == 1800

HalfDay == 43200

TenMinutes == 600

OneHour == 3600

\* The deployment: the revision of index.ts that runs, what the environment
\* may hold, the milliseconds Date.now() may show and the time that may pass
\* before a run starts.  The usual one runs the later revision with SINCE
\* unset or malformed.
Usual ==
  [ revision |-> 2, projects |-> ProjectInputs,
    stagingTables |-> { DefaultStagingTable },
    sinces |-> { Unset, SinceUnpadded }, millis |-> {0}, delays |-> {0} ]

\* A Jira site that answers each page request with any issues at all.
AnyAnswer(sizes, totals) ==
  [ coherent |-> FALSE, sizes |-> sizes, totals |-> totals, site |-> <<>> ]

\* When version v of an issue was written: v = 1 forty minutes and v = 2
\* twenty minutes before StartTime.
UpdatedAt(v) == StartTime - OneHour + v * 2 * TenMinutes

\* A Jira site that holds K1 (version 1) and K2 (version 2), answers the
\* query from them and serves one issue per page.
UnitPage == 1

Site ==
  << [key |-> "K1", summary |-> Summary(1), updated |-> 1],
     [key |-> "K2", summary |-> Summary(2), updated |-> 2] >>

(* -------------------------------- state -------------------------------- *)

VARIABLES
  cadence,    \* how runs are started: "overlapping", "serial" or "single"
  jira,       \* the Jira site: how it answers, page sizes, totals, issues
  deploy,     \* the deployment: revision, environment values, start delays
  now,        \* the time, in seconds
  target,     \* rows of <project>.<dataset>.jsm_tickets, in insertion order
  staging,    \* rows of <project>.<dataset>.jsm_tickets_staging
  custom,     \* rows of the staging table of another name, when configured
  clock,      \* number of MERGE statements executed: CURRENT_TIMESTAMP()
  lastWrite,  \* what the last statements that wrote to the tables were
  prev,       \* the run that exited last: exit code, error, query, batch
  pc,         \* per run: where main() stands
  config,     \* per run: what main() read: project, sinceEnv, Date.now()
  sinceIso,   \* per run: main's sinceIso, until the query is built
  secretsRead,\* per run: getSecret calls made
  jql,        \* per run: the lower bound inside fetchIssuesSince's jql
  startAt,    \* per run: fetchIssuesSince's startAt
  rows,       \* per run: fetchIssuesSince's rows, then main's rows
  received,   \* per run: data.issues of each response received so far
  pages,      \* per run: paging fields of the responses received so far
  requests,   \* per run: offsets of the page requests sent so far
  inserted,   \* per run: main's inserted (-1 before insertToStaging returns)
  calls,      \* per run: warehouse calls made: [insert, query]
  stages,     \* per run: the stages completed so far, in order
  error,      \* per run: stage whose error main().catch received, or "none"
  exitCode,   \* per run: process exit code (-1 while running)
  field,      \* mappers: the custom field of an issue that is being mapped
  column,     \* mappers: the column value made of it
  processEnv, \* trigger endpoint: SECRET, PROJECT, REGION and JOB
  request,    \* trigger endpoint: the request: Authorization header, since
  response,   \* trigger endpoint: the response sent: status and body
  outbound,   \* trigger endpoint: the outbound calls made, in order
  handler,    \* trigger endpoint: where the handler stands
  getPage,    \* reports: the jiraJqlGetPage call in progress, or the last one
  weekly,     \* reports: fetchWeeklyData's token, pageCount and allRows
  reporting,  \* reports: generateAllWeeklyReports: reports, sends, alert
  triggers,   \* reports: the project's triggers (ScriptApp)
  scheduling  \* reports: the last schedule/remove call and how it ended

shared == <<target, staging, custom, clock, lastWrite>>
mapper == <<field, column>>
trigger == <<processEnv, request, response, outbound, handler>>
sheet == <<getPage, weekly, reporting, triggers, scheduling>>
setting == <<cadence, jira, deploy, mapper, trigger, sheet>>
NoRun == [code |-> -1, error |-> "none", jql |-> <<>>, rows |-> <<>>]
fetchVars == <<startAt, rows, pages, requests>>
vars == <<cadence, jira, deploy, now, target, staging, clock, lastWrite, prev,
          pc, config, sinceIso, secretsRead, jql, startAt, rows, received,
          pages, requests, inserted, calls, stages, error, exitCode, custom,
          field, column, processEnv, request, response, outbound, handler,
          getPage, weekly, reporting, triggers, scheduling>>

NoCalls == [insert |-> 0, query |-> 0]

\* The column value before the mapper has returned.
Pending == [type |-> "pending"]

NoField == [mapper |-> "none", value |-> Undefined]

\* No field is being mapped.
MapperIdle == field = NoField /\ column = Pending

NoEnv == [SECRET |-> <<>>, PROJECT |-> <<>>, REGION |-> <<>>, JOB |-> <<>>]

NoRequest == [authorization |-> <<>>, since |-> <<>>]

NoResponse == [status |-> 0, body |-> "none"]

\* The endpoint has received no request.
TriggerIdle ==
  /\ processEnv = NoEnv
  /\ request = NoRequest
  /\ response = NoResponse
  /\ outbound = <<>>
  /\ handler = "idle"

(* ------------------- the weekly reports (Code.js) ---------------------- *)

\* CONFIG.RETRY_ATTEMPTS
RETRY_ATTEMPTS == 3

\* fetchWeeklyData's bound on pageCount
MaxPages == 50

\* Math.pow(2, attempt)
RECURSIVE Pow2(_)
Pow2(n) == IF n = 0 THEN 1 ELSE 2 * Pow2(n - 1)

\* A mutant of Backoff: the same wait before every attempt.
BackoffFlat(attempt) == 1000 * Pow2(0)

\* The argument of Utilities.sleep between two attempts.
Backoff(attempt) == 1000 * Pow2(attempt)

\* What one UrlFetchApp.fetch can give jiraJqlGetPage: a response with
\* its code and content (muteHttpExceptions), or an exception (code 0).
\* A 200 whose content JSON.parse takes carries issues and perhaps a
\* nextPageToken.
FetchThrew == [code |-> 0, body |-> "none", issues |-> 0, nextPageToken |-> NULL]

Garbled == [code |-> 200, body |-> "garbled", issues |-> 0, nextPageToken |-> NULL]

Failure(code) ==
  [code |-> code, body |-> "error", issues |-> 0, nextPageToken |-> NULL]

PageResponses ==
  { [code |-> 200, body |-> "page", issues |-> n, nextPageToken |-> t] :
      n \in {0, 1}, t \in {NULL, "", "t1", "t2"} }

Responses ==
  PageResponses \cup {FetchThrew, Garbled}
    \cup { Failure(code) : code \in {404, 429, 500} }

\* The object jiraJqlGetPage returns for a 200: data.issues || [] and
\* data.nextPageToken || null.
PageOf(resp) ==
  [issues |-> resp.issues,
   nextPageToken |-> IF Truthy(resp.nextPageToken) THEN resp.nextPageToken
                     ELSE NULL]

NoPage == [issues |-> 0, nextPageToken |-> NULL]

\* A mutant of Caught: the last error is not thrown again.
CaughtQuietly(attempt) == "sleep"

\* The catch block: throw error on the last attempt, else sleep.
Caught(attempt) == IF attempt >= RETRY_ATTEMPTS - 1 THEN "throw" ELSE "sleep"

\* One pass of jiraJqlGetPage's loop body on the response resp: "return",
\* "throw" (out of the function), or "sleep" and go on to the next attempt.
\* The throw of `Jira API ${code}` stands inside the try, so the catch
\* block receives it.
Outcome(attempt, resp) ==
  IF resp.code = 0 THEN Caught(attempt)
  ELSE IF resp.code = 200
    THEN IF resp.body = "page" THEN "return" ELSE Caught(attempt)
  ELSE IF (resp.code >= 500 \/ resp.code = 429)
            /\ attempt < RETRY_ATTEMPTS - 1
    THEN "sleep"
  ELSE Caught(attempt)

\* A mutant of LoopsOn: the token is not looked at.
LoopsOnBlindly(token, pageCount) == pageCount < MaxPages

\* fetchWeeklyData's loop condition: while (token && pageCount < 50).
LoopsOn(token, pageCount) == Truthy(token) /\ pageCount < MaxPages

\* No call of jiraJqlGetPage has been made.
NoCall ==
  [state |-> "idle", nextPageToken |-> NULL, attempt |-> 0,
   fetched |-> <<>>, sleeps |-> <<>>, page |-> NoPage]

\* fetchWeeklyData has not been called.
NotFetching ==
  [state |-> "idle", token |-> NULL, pageCount |-> 0, allRows |-> 0,
   page |-> NoPage]

\* The channels of the reports, in the order generateAllWeeklyReports
\* prepares them: the three teams, then the guild.
Channels ==
  <<"team-payments", "team-savings", "team-lending-business",
    "guild-support-tech">>

ChannelSet == { Channels[i] : i \in 1..Len(Channels) }

\* reports: one per channel whose analysis has no .error, in that order.
PreparedReports(errors) ==
  SelectSeq(Channels, LAMBDA channel : channel \notin errors)

\* What Slack may answer to one POST: a code, or the fetch throws (0).
SlackAnswers == {200, 404, 500, 0}

\* The body of the try around one report: "unconfigured" when
\* SLACK_WEBHOOKS[r.channel] is '' (nothing is posted), "sent" when
\* sendToSlack returns, "failed" when it throws.
SendOutcome(webhook, answer) ==
  IF webhook = "" THEN "unconfigured"
  ELSE IF answer = 200 THEN "sent" ELSE "failed"

\* A mutant of Counted: every report counts.
CountedAlways(successCount, outcome) == successCount + 1

\* successCount++ stands after sendToSlack inside the try.
Counted(successCount, outcome) ==
  IF outcome = "sent" THEN successCount + 1 ELSE successCount

NoAlert == [kind |-> "none", successCount |-> 0, reports |-> 0]

\* generateAllWeeklyReports has not been called.
NotReporting ==
  [state |-> "idle", webhooks |-> [channel \in ChannelSet |-> ""],
   errors |-> {}, thisWeekCount |-> -1, reports |-> <<>>, sent |-> <<>>,
   successCount |-> 0, alert |-> NoAlert]

\* Neither scheduleWeeklyReports nor removeSchedule has been called.
NotScheduling == [call |-> "none", user |-> "none", ended |-> "none"]

\* The users who run the script bound to the spreadsheet. An installable
\* trigger belongs to the user who created it, and
\* ScriptApp.getProjectTriggers() gives the caller their own triggers of
\* the project.
Users == {"u1", "u2"}

\* Handler functions of installable triggers: the weekly reports and
\* another one.
Handlers == {"generateAllWeeklyReports", "viewLogs"}

\* At most this many triggers exist before the first call.
MaxTriggers == 2

\* The triggers the forEach of scheduleWeeklyReports and of removeSchedule
\* deletes: those of getProjectTriggers() whose handler function is
\* generateAllWeeklyReports.
Doomed(t, user) ==
  t.owner = user /\ t.handler = "generateAllWeeklyReports"

\* The project's triggers once the forEach has deleted its first k.
RECURSIVE DeleteFirst(_, _, _)
DeleteFirst(trigs, user, k) ==
  IF trigs = <<>> THEN <<>>
  ELSE IF k > 0 /\ Doomed(Head(trigs), user)
    THEN DeleteFirst(Tail(trigs), user, k - 1)
  ELSE <<Head(trigs)>> \o DeleteFirst(Tail(trigs), user, k)

\* How many triggers the forEach is to delete.
DoomedCount(trigs, user) ==
  Cardinality({ i \in 1..Len(trigs) : Doomed(trigs[i], user) })

\* ScriptApp.newTrigger('generateAllWeeklyReports').timeBased()...create()
NewTrigger(user) == [owner |-> user, handler |-> "generateAllWeeklyReports"]

\* Nothing of the weekly reports runs.
SheetIdle ==
  /\ getPage = NoCall
  /\ weekly = NotFetching
  /\ reporting = NotReporting
  /\ triggers = <<>>
  /\ scheduling = NotScheduling

\* The variables of the runs of main() and of the tables, and every
\* variable of the puller.
runs ==
  <<now, shared, prev, pc, config, sinceIso, secretsRead, jql, startAt, rows,
    received, pages, requests, inserted, calls, stages, error, exitCode>>

puller == <<cadence, jira, deploy, runs>>

NoConfig ==
  [project |-> <<>>, stagingTable |-> <<>>, sinceEnv |-> <<>>, now |-> 0,
   ms |-> 0]

\* Nothing has run yet and both tables are empty.
Start ==
  /\ now = StartTime
  /\ target = <<>>
  /\ staging = <<>>
  /\ custom = <<>>
  /\ clock = 0
  /\ lastWrite = "none"
  /\ prev = NoRun
  /\ pc = [r \in Runs |-> "main"]
  /\ config = [r \in Runs |-> NoConfig]
  /\ sinceIso = [r \in Runs |-> Unset]
  /\ secretsRead = [r \in Runs |-> 0]
  /\ jql = [r \in Runs |-> <<>>]
  /\ startAt = [r \in Runs |-> 0]
  /\ rows = [r \in Runs |-> <<>>]
  /\ received = [r \in Runs |-> <<>>]
  /\ pages = [r \in Runs |-> <<>>]
  /\ requests = [r \in Runs |-> <<>>]
  /\ inserted = [r \in Runs |-> -1]
  /\ calls = [r \in Runs |-> NoCalls]
  /\ stages = [r \in Runs |-> <<>>]
  /\ error = [r \in Runs |-> "none"]
  /\ exitCode = [r \in Runs |-> -1]

\* `if (!res.ok) break;`: a failed page ends the loop and the rows gathered
\* so far are returned.
ThrowUnlessFetch(r, stage) ==
  /\ pc' = [pc EXCEPT ![r] = IF stage = "fetch" THEN "fetched" ELSE "catch"]
  /\ error' = [error EXCEPT ![r] = IF stage = "fetch" THEN "none" ELSE stage]
  /\ UNCHANGED stages

\* Overlapping runs (scheduled and on-demand triggers) against a Jira that
\* serves full pages.
Init ==
  /\ Start
  /\ SheetIdle
  /\ MapperIdle
  /\ TriggerIdle
  /\ cadence = "overlapping"
  /\ jira = AnyAnswer({PageSize}, {SmallTotal, LargeTotal})
  /\ deploy = Usual

\* Runs one after the other (the scheduled cadence).
InitSeq ==
  /\ Start
  /\ SheetIdle
  /\ MapperIdle
  /\ TriggerIdle
  /\ cadence = "serial"
  /\ jira = AnyAnswer({PageSize}, {SmallTotal, LargeTotal})
  /\ deploy = Usual

\* One run against a Jira that may cap the page size below the one requested.
InitFetch ==
  /\ Start
  /\ SheetIdle
  /\ MapperIdle
  /\ TriggerIdle
  /\ cadence = "single"
  /\ jira = AnyAnswer({SmallPage, PageSize}, {SmallTotal, EvenTotal, LargeTotal})
  /\ deploy = Usual

\* One run of either revision, with every modelled value of the environment,
\* started at several times of the day.
InitConfig ==
  /\ Start
  /\ SheetIdle
  /\ MapperIdle
  /\ TriggerIdle
  /\ cadence = "single"
  /\ jira = AnyAnswer({PageSize}, {SmallTotal})
  /\ \E revision \in {1, 2} :
       deploy = [ revision |-> revision, projects |-> MoreProjectInputs,
                  stagingTables |-> { DefaultStagingTable },
                  sinces |-> MoreSinceInputs, millis |-> {0, 7, 123},
                  delays |-> {0, HalfHour, HalfDay} ]

\* Runs one after the other, ten minutes or an hour apart, with the default
\* lower bound, against a Jira site that answers the query from its issues.
InitSite ==
  /\ Start
  /\ SheetIdle
  /\ MapperIdle
  /\ TriggerIdle
  /\ cadence = "serial"
  /\ jira = [ coherent |-> TRUE, sizes |-> {UnitPage}, totals |-> {}, site |-> Site ]
  /\ deploy = [ revision |-> 2, projects |-> { <<"d", "j", "-", "1">> },
                stagingTables |-> { DefaultStagingTable },
                sinces |-> { Unset }, millis |-> {0},
                delays |-> {TenMinutes, OneHour} ]

\* Runs one after the other whose BQ_STAGING_TABLE is unset, names another
\* table or is malformed.
CustomStagingTable == <<"s", "t", "g", "_", "2">>

InitTables ==
  /\ Start
  /\ SheetIdle
  /\ MapperIdle
  /\ TriggerIdle
  /\ cadence = "serial"
  /\ jira = AnyAnswer({PageSize}, {SmallTotal})
  /\ deploy = [ revision |-> 2, projects |-> { <<"d", "j", "-", "1">> },
                stagingTables |-> { DefaultStagingTable, CustomStagingTable,
                                    <<"S", "t", "g">> },
                sinces |-> { Unset }, millis |-> {0}, delays |-> {0} ]

\* Overlapping runs with the default lower bound against a Jira site that
\* answers the query from its issues, one per page, while they are edited.
InitLive ==
  /\ Start
  /\ SheetIdle
  /\ MapperIdle
  /\ TriggerIdle
  /\ cadence = "overlapping"
  /\ jira = [ coherent |-> TRUE, sizes |-> {UnitPage}, totals |-> {}, site |-> Site ]
  /\ deploy = [ revision |-> 2, projects |-> { <<"d", "j", "-", "1">> },
                stagingTables |-> { DefaultStagingTable },
                sinces |-> { Unset }, millis |-> {0}, delays |-> {0} ]

\* One run against a Jira that may declare a page size of 0 or leave the
\* page size or the total out of its response.
InitStall ==
  /\ Start
  /\ SheetIdle
  /\ MapperIdle
  /\ TriggerIdle
  /\ cadence = "single"
  /\ jira = AnyAnswer({0, Omitted, PageSize}, {Omitted, SmallTotal})
  /\ deploy = Usual

\* Where a run touches nothing but its own memory.  Such steps commute with
\* every step of another run, so a run is not preempted between two of them:
\* overlapping runs interleave at their warehouse calls.
Local == {"secrets", "fetch", "fetched", "return", "catch"}

Scheduled(r) == \A q \in Runs \ {r} : pc[q] \notin Local

\* Run r may take its next step.  Runs are numbered in the order in which
\* they start.
Turn(r) ==
  /\ \A q \in Runs : q < r => pc[q] # "main"
  /\ CASE cadence = "overlapping" -> Scheduled(r)
       [] cadence = "serial" -> \A q \in Runs : q < r => pc[q] = "exited"
       [] cadence = "single" -> r = 1
       [] OTHER -> FALSE

\* An await rejects or a statement throws in `stage`: control passes to the
\* handler of main().catch.
Throw(r, stage) ==
  /\ pc' = [pc EXCEPT ![r] = "catch"]
  /\ error' = [error EXCEPT ![r] = stage]
  /\ UNCHANGED stages

\* `stage` completes and main() goes on at `next`.
Proceed(r, stage, next) ==
  /\ pc' = [pc EXCEPT ![r] = next]
  /\ stages' = [stages EXCEPT ![r] = Append(@, stage)]
  /\ UNCHANGED error

\* The issues that match `updated >= "<since>" order by updated asc` on a
\* site that answers from its issues.
Matching(site, since) ==
  SelectSeq(site, LAMBDA issue : UpdatedAt(issue.updated) >= getTime(since))

Min(a, b) == IF a <= b THEN a ELSE b

\* The successful answers the site may give to the request at startAt.
Answers(since, offset, room) ==
  IF jira.coherent
    THEN { [issues |-> SubSeq(Matching(jira.site, since), offset + 1,
                              Min(offset + m, Len(Matching(jira.site, since)))),
            startAt |-> offset, maxResults |-> m,
            total |-> Len(Matching(jira.site, since))] : m \in jira.sizes }
    ELSE OkResponses(offset, room, jira.sizes, jira.totals)

(* ------------------------------- actions ------------------------------- *)

\* main() up to its first await: read the environment and validate it.
Main(r) ==
  /\ pc[r] = "main"
  /\ Turn(r)
  /\ \E project \in deploy.projects, stagingTable \in deploy.stagingTables,
        sinceEnv \in deploy.sinces, delay \in deploy.delays,
        ms \in deploy.millis :
       /\ now' = now + delay
       /\ config' = [config EXCEPT ![r] =
                       [project |-> project, stagingTable |-> stagingTable,
                        sinceEnv |-> sinceEnv, now |-> now', ms |-> ms]]
       /\ IF (IF deploy.revision = 1
                THEN ConfigErrorEarlier(project, DefaultDataset, sinceEnv)
                ELSE ConfigError(project, DefaultDataset, stagingTable,
                                 DefaultLocation, sinceEnv)) = "ok"
            THEN /\ Proceed(r, "config", "secrets")
                 /\ sinceIso' = [sinceIso EXCEPT ![r] =
                                   SinceIso(sinceEnv, now', ms)]
            ELSE /\ Throw(r, "config")
                 /\ UNCHANGED sinceIso
  /\ UNCHANGED <<setting, shared, prev, secretsRead, jql, fetchVars, received,
                 inserted, calls, exitCode>>

\* The three getSecret calls, then fetchIssuesSince up to its loop: the
\* validation of sinceIso (later revision) and the query string built from it.
GetSecrets(r) ==
  /\ pc[r] = "secrets"
  /\ Turn(r)
  /\ \/ /\ deploy.revision = 1 \/ validateISO8601(sinceIso[r])
        /\ secretsRead' = [secretsRead EXCEPT ![r] = 3]
        /\ Proceed(r, "secrets", "fetch")
        /\ jql' = [jql EXCEPT ![r] = sinceIso[r]]
        /\ sinceIso' = [sinceIso EXCEPT ![r] = Unset]
     \/ /\ \E n \in 1..3 : secretsRead' = [secretsRead EXCEPT ![r] = n]
        /\ Throw(r, "secrets")
        /\ UNCHANGED <<sinceIso, jql>>
     \/ /\ deploy.revision # 1 /\ ~validateISO8601(sinceIso[r])
        /\ secretsRead' = [secretsRead EXCEPT ![r] = 3]
        /\ Throw(r, "fetch")
        /\ UNCHANGED <<sinceIso, jql>>
  /\ UNCHANGED <<setting, now, shared, prev, config, fetchVars, received,
                 inserted, calls, exitCode>>

\* One iteration of the while loop of fetchIssuesSince: the request at
\* startAt, and the response.
FetchPage(r) ==
  /\ pc[r] = "fetch"
  /\ Turn(r)
  /\ Len(requests[r]) < MaxRequests
  /\ requests' = [requests EXCEPT ![r] = Append(@, startAt[r])]
  /\ \/ \* !res.ok
        /\ Throw(r, "fetch")
        /\ UNCHANGED <<startAt, rows, received, pages>>
     \/ \E res \in Answers(jql[r], startAt[r],
                           MaxBatch - Len(Flatten(received[r]))) :
          /\ pages' = [pages EXCEPT ![r] = Append(@, Paging(res))]
          /\ received' = [received EXCEPT ![r] = Append(@, res.issues)]
          /\ rows' = [rows EXCEPT ![r] = PushIssues(@, res.issues)]
          /\ IF LastPage(Paging(res))
               THEN /\ pc' = [pc EXCEPT ![r] = "fetched"]
                    /\ UNCHANGED startAt
               ELSE /\ startAt' = [startAt EXCEPT ![r] =
                                     NextStartAt(@, Paging(res))]
                    /\ UNCHANGED pc
          /\ UNCHANGED <<stages, error>>
  /\ UNCHANGED <<setting, now, shared, prev, config, sinceIso, secretsRead, jql,
                 inserted, calls, exitCode>>

\* `return rows;`: fetchIssuesSince returns the batch, its frame is gone.
FetchReturn(r) ==
  /\ pc[r] = "fetched"
  /\ Turn(r)
  /\ Proceed(r, "fetch", "load")
  /\ jql' = [jql EXCEPT ![r] = <<>>]
  /\ startAt' = [startAt EXCEPT ![r] = 0]
  /\ received' = [received EXCEPT ![r] = <<>>]
  /\ pages' = [pages EXCEPT ![r] = <<>>]
  /\ requests' = [requests EXCEPT ![r] = <<>>]
  /\ UNCHANGED <<setting, now, shared, prev, config, sinceIso, secretsRead,
                 rows, inserted, calls, exitCode>>

\* insertToStaging and main's branch on its result.
InsertToStaging(r) ==
  /\ pc[r] = "load"
  /\ Turn(r)
  /\ IF Len(rows[r]) = 0
       THEN /\ inserted' = [inserted EXCEPT ![r] = 0]
            /\ Proceed(r, "load", IF ShouldMerge(0) THEN "merge" ELSE "return")
            /\ UNCHANGED <<staging, custom, lastWrite, calls>>
       ELSE /\ calls' = [calls EXCEPT ![r].insert = @ + 1]
            /\ \/ /\ IF config[r].stagingTable = DefaultStagingTable
                       THEN /\ staging' = InsertRows(staging, rows[r])
                            /\ lastWrite' = "insert"
                            /\ UNCHANGED custom
                       ELSE /\ custom' = InsertRows(custom, rows[r])
                            /\ UNCHANGED <<staging, lastWrite>>
                  /\ inserted' = [inserted EXCEPT ![r] = Len(rows[r])]
                  /\ Proceed(r, "load", IF ShouldMerge(Len(rows[r]))
                                          THEN "merge" ELSE "return")
               \/ /\ Throw(r, "load")
                  /\ UNCHANGED <<staging, custom, lastWrite, inserted>>
  /\ UNCHANGED <<setting, now, target, clock, prev, config, sinceIso,
                 secretsRead, jql, fetchVars, received, exitCode>>

\* The statements executed since something was last appended to staging:
\* "delete" once a DELETE has completed, "delete,merge" once a MERGE has
\* followed it, "delete,merge,delete" once a DELETE has followed that.
AfterMerge(last) ==
  IF last \in {"delete", "delete,merge,delete"} THEN "delete,merge" ELSE last

AfterDelete(last) ==
  IF last \in {"delete,merge", "delete,merge,delete"}
    THEN "delete,merge,delete" ELSE "delete"

\* runMerge: createQueryJob, and the MERGE statement of the script.
MergeStatement(r) ==
  /\ pc[r] = "merge"
  /\ Turn(r)
  /\ calls' = [calls EXCEPT ![r].query = @ + 1]
  /\ \/ /\ ~MergeRejected(target, staging)
        /\ clock' = clock + 1
        /\ target' = Merge(target, staging, clock + 1)
        /\ lastWrite' = AfterMerge(lastWrite)
        /\ pc' = [pc EXCEPT ![r] = "delete"]
        /\ UNCHANGED <<stages, error>>
     \/ /\ Throw(r, "reconcile")
        /\ UNCHANGED <<target, clock, lastWrite>>
  /\ UNCHANGED <<setting, now, staging, custom, prev, config, sinceIso,
                 secretsRead, jql, fetchVars, received, inserted, exitCode>>

\* runMerge: the DELETE statement of the script, and getQueryResults.
DeleteStatement(r) ==
  /\ pc[r] = "delete"
  /\ Turn(r)
  /\ \/ /\ staging' = DeleteStaging(staging)
        /\ lastWrite' = AfterDelete(lastWrite)
        /\ Proceed(r, "reconcile", "return")
     \/ /\ Throw(r, "reconcile")
        /\ UNCHANGED <<staging, lastWrite>>
  /\ UNCHANGED <<setting, now, target, custom, clock, prev, config, sinceIso,
                 secretsRead, jql, fetchVars, received, inserted, calls,
                 exitCode>>

\* The process ends and its memory with it.
Exit(r, code) ==
  /\ pc' = [pc EXCEPT ![r] = "exited"]
  /\ exitCode' = [exitCode EXCEPT ![r] = code]
  /\ config' = [config EXCEPT ![r] = NoConfig]
  /\ sinceIso' = [sinceIso EXCEPT ![r] = Unset]
  /\ secretsRead' = [secretsRead EXCEPT ![r] = 0]
  /\ jql' = [jql EXCEPT ![r] = <<>>]
  /\ startAt' = [startAt EXCEPT ![r] = 0]
  /\ rows' = [rows EXCEPT ![r] = <<>>]
  /\ received' = [received EXCEPT ![r] = <<>>]
  /\ pages' = [pages EXCEPT ![r] = <<>>]
  /\ requests' = [requests EXCEPT ![r] = <<>>]
  /\ inserted' = [inserted EXCEPT ![r] = -1]
  /\ calls' = [calls EXCEPT ![r] = NoCalls]
  /\ stages' = [stages EXCEPT ![r] = <<>>]
  /\ error' = [error EXCEPT ![r] = "none"]
  /\ prev' = [code |-> code, error |-> error[r], jql |-> jql[r],
              rows |-> rows[r]]
  /\ UNCHANGED <<setting, now, shared>>

\* main() resolves.
Return(r) ==
  /\ pc[r] = "return"
  /\ Turn(r)
  /\ Exit(r, 0)

\* A handler that logs the error and lets the process end normally.
CatchAndExitZero(r) ==
  /\ pc[r] = "catch"
  /\ Turn(r)
  /\ Exit(r, 0)

\* main().catch: log the error, process.exit(1).
Catch(r) ==
  /\ pc[r] = "catch"
  /\ Turn(r)
  /\ Exit(r, 1)

\* An issue of the site is edited in Jira: it gets a new version, written
\* now, and moves to the end of `order by updated asc`.
UpdateIssue(i) ==
  /\ jira.coherent
  /\ i \in 1..Len(jira.site)
  /\ jira.site[i].updated <= MaxVersion
  /\ jira' = [jira EXCEPT !.site =
                Append(SubSeq(@, 1, i - 1) \o SubSeq(@, i + 1, Len(@)),
                       [key |-> @[i].key, summary |-> Summary(MaxVersion + 1),
                        updated |-> MaxVersion + 1])]
  /\ UNCHANGED <<cadence, deploy, mapper, trigger, sheet, runs>>

Next ==
  \E r \in Runs :
    \/ Main(r)
    \/ GetSecrets(r)
    \/ FetchPage(r)
    \/ FetchReturn(r)
    \/ InsertToStaging(r)
    \/ MergeStatement(r)
    \/ DeleteStatement(r)
    \/ Return(r)
    \/ Catch(r)

Spec == Init /\ [][Next]_vars

SpecSeq == InitSeq /\ [][Next]_vars

SpecFetch == InitFetch /\ [][Next]_vars

SpecConfig == InitConfig /\ [][Next]_vars

SpecSite == InitSite /\ [][Next]_vars

SpecTables == InitTables /\ [][Next]_vars

SpecStall == InitStall /\ [][Next]_vars

\* The runs of main() beside the edits made in Jira.
NextLive == Next \/ \E i \in 1..Len(Site) : UpdateIssue(i)

SpecLive == InitLive /\ [][NextLive]_vars

(* ---------------------------- mapper actions --------------------------- *)

\* operational_categorization: cascadingToString(f.customfield_10061)
MapCascading ==
  /\ field.mapper = "cascadingToString"
  /\ column = Pending
  /\ column' = cascadingToString(field.value)
  /\ UNCHANGED <<field, trigger, sheet, puller>>

\* team: multiSelectToArray(f.customfield_10090), and filiale likewise.
MapMultiSelect ==
  /\ field.mapper = "multiSelectToArray"
  /\ column = Pending
  /\ column' = multiSelectToArray(field.value)
  /\ UNCHANGED <<field, trigger, sheet, puller>>

\* One custom field of one issue, about to be mapped; no run of main().
InitFields ==
  /\ Start
  /\ SheetIdle
  /\ TriggerIdle
  /\ cadence = "none"
  /\ jira = AnyAnswer({}, {})
  /\ deploy = Usual
  /\ column = Pending
  /\ \/ \E cs \in CascadingInputs :
          field = [mapper |-> "cascadingToString", value |-> cs]
     \/ \E ms \in MultiSelectInputs :
          field = [mapper |-> "multiSelectToArray", value |-> ms]

NextFields == MapCascading \/ MapMultiSelect

SpecFields == InitFields /\ [][NextFields]_vars

(* --------------------------- trigger endpoint -------------------------- *)

\* s.startsWith(prefix)
startsWith(s, prefix) ==
  Len(s) >= Len(prefix) /\ SubSeq(s, 1, Len(prefix)) = prefix

\* s.substring(start)
substring(s, start) == SubSeq(s, start + 1, Len(s))

\* authHeader.startsWith("Bearer ") ? authHeader.substring(7) : ""
BearerToken(authHeader) ==
  IF startsWith(authHeader, <<"B", "e", "a", "r", "e", "r", " ">>)
    THEN substring(authHeader, 7) ELSE <<>>

\* `if (token !== secret)`: an empty token is compared like any other.
UnauthorizedUnlessEqual(token, secret) == token # secret

\* `if (!token || token !== secret)`
Unauthorized(token, secret) == token = <<>> \/ token # secret

\* The checks of PROJECT, REGION and JOB: the error of the first one that
\* fails, or "ok".
Misconfiguration(project, region, job) ==
  IF project = Unset \/ region = Unset \/ job = Unset
    THEN "Server misconfiguration"
  ELSE IF ~validateGCPIdentifier(project)
    THEN "Server misconfiguration: invalid PROJECT"
  ELSE IF ~validateGCPIdentifier(region)
    THEN "Server misconfiguration: invalid REGION"
  ELSE IF ~validateGCPIdentifier(job)
    THEN "Server misconfiguration: invalid JOB"
  ELSE "ok"

\* A body that never carries an override.
RunBodyEmpty(job, since) == [containerOverrides |-> <<>>]

\* The body of the job-run request: its overrides.containerOverrides, none
\* for the body {}.
RunBody(job, since) ==
  [ containerOverrides |->
      IF since # <<>>
        THEN << [name |-> job,
                 env |-> << [name |-> "SINCE", value |-> since] >>] >>
        ELSE <<>> ]

\* The fetch of the access token from the metadata service.
MetadataCall == [to |-> "metadata"]

\* The POST to .../namespaces/<project>/jobs/<job>:run of <region>-run.
RunCall(region, project, job, since) ==
  [to |-> "run", region |-> region, project |-> project, job |-> job,
   body |-> RunBody(job, since)]

\* res.status(status).json({ error: body, ... }); return;
Respond(status, body) ==
  /\ response' = [status |-> status, body |-> body]
  /\ handler' = "done"

\* The handler up to its first await.
Handle ==
  /\ handler = "idle"
  /\ LET secret == processEnv.SECRET
         token == BearerToken(request.authorization)
         project == processEnv.PROJECT
         region == processEnv.REGION
         job == processEnv.JOB
         since == request.since IN
       IF Unauthorized(token, secret)
         THEN Respond(401, "Unauthorized") /\ UNCHANGED outbound
       ELSE IF Misconfiguration(project, region, job) # "ok"
         THEN /\ Respond(500, Misconfiguration(project, region, job))
              /\ UNCHANGED outbound
       ELSE IF since # <<>> /\ ~TriggerValidateISO8601(since)
         THEN Respond(400, "Invalid 'since' parameter") /\ UNCHANGED outbound
       ELSE /\ outbound' = Append(outbound, MetadataCall)
            /\ handler' = "token"
            /\ UNCHANGED response
  /\ UNCHANGED <<processEnv, request, mapper, sheet, puller>>

\* The metadata service answers, and the job-run request is sent.
MetadataResponse ==
  /\ handler = "token"
  /\ \/ \* the fetch rejects, or !meta.ok, or meta.json() rejects
        Respond(500, "Internal server error") /\ UNCHANGED outbound
     \/ /\ outbound' = Append(outbound,
                               RunCall(processEnv.REGION, processEnv.PROJECT,
                                       processEnv.JOB, request.since))
        /\ handler' = "run"
        /\ UNCHANGED response
  /\ UNCHANGED <<processEnv, request, mapper, sheet, puller>>

\* The Cloud Run API answers the job-run request.
RunResponse ==
  /\ handler = "run"
  /\ \/ Respond(500, "Internal server error")
     \/ Respond(500, "Failed to trigger job")
     \/ Respond(200, "started")
  /\ UNCHANGED <<processEnv, request, outbound, mapper, sheet, puller>>

\* process.env of the endpoint and the requests it may receive.
Secret == <<"s", "1">>

RegionInputs == { Unset, <<"e", "u", "-", "w", "1">>, <<"e", "u", ".", "w">> }

JobInputs == { Unset, <<"j", "s", "m">>, <<"j", "/", "x">> }

Bearer(token) == <<"B", "e", "a", "r", "e", "r", " ">> \o token

AuthorizationInputs ==
  { Unset, Bearer(Secret), Bearer(<<"s", "2">>), Bearer(<<>>),
    Bearer(<<" ">> \o Secret), <<"B", "e", "a", "r", "e", "r">> \o Secret,
    <<"b", "e", "a", "r", "e", "r", " ">> \o Secret,
    <<"B", "a", "s", "i", "c", " ">> \o Secret, Secret }

\* One request to the endpoint; no run of main().
InitTrigger ==
  /\ Start
  /\ SheetIdle
  /\ MapperIdle
  /\ cadence = "none"
  /\ jira = AnyAnswer({}, {})
  /\ deploy = Usual
  /\ processEnv \in [ SECRET : { Unset, Secret }, PROJECT : ProjectInputs,
                       REGION : RegionInputs, JOB : JobInputs ]
  /\ request \in [ authorization : AuthorizationInputs,
                    since : MoreSinceInputs ]
  /\ response = NoResponse
  /\ outbound = <<>>
  /\ handler = "idle"

NextTrigger == Handle \/ MetadataResponse \/ RunResponse

SpecTrigger == InitTrigger /\ [][NextTrigger]_vars

(* ------------------------------ properties ----------------------------- *)

\* Run r executes the MERGE statement and it succeeds.
MergeStep(r) == pc[r] = "merge" /\ pc'[r] = "delete"

\* Run r executes the DELETE statement and it succeeds.
DeleteStep(r) == pc[r] = "delete" /\ pc'[r] = "return"

\* Run r leaves insertToStaging, by return or by throw.
LoadStep(r) == pc[r] = "load" /\ pc'[r] # "load"

DistinctKeys(tbl) ==
  \A i, j \in 1..Len(tbl) : tbl[i].key = tbl[j].key => i = j

RowsOf(tbl, k) == { i \in 1..Len(tbl) : tbl[i].key = k }

\* C1: after any sequence of runs from an empty target table, the target
\* table holds at most one row per issue key.
C1_OneRowPerKey == DistinctKeys(target)

\* C2: when two successive successful runs fetch the same key and the second
\* carries an updated summary, the target afterwards holds exactly one row for
\* the key, with the second run's summary.
C2_SecondSummaryWins ==
  \A r \in Runs, k \in Keys, v1, v2 \in 1..MaxVersion :
    ( /\ prev.code = 0
      /\ pc[r] = "return"
      /\ v1 < v2
      /\ RowsOf(prev.rows, k) # {}
      /\ \A i \in RowsOf(prev.rows, k) : prev.rows[i].updated <= v1
      /\ RowsOf(rows[r], k) # {}
      /\ \A i \in RowsOf(rows[r], k) : rows[r][i].summary = Summary(v2) )
    => /\ Cardinality(RowsOf(target, k)) = 1
       /\ \A i \in RowsOf(target, k) : target[i].summary = Summary(v2)

\* C3: a reconcile that follows a completed reconcile with no append to
\* staging in between changes nothing: staging is empty after the first and
\* after the second, and the second leaves every target row as it was.
C3_SecondReconcileNoOp ==
  [][ /\ lastWrite \in {"delete", "delete,merge", "delete,merge,delete"}
        => staging = <<>>
      /\ \A r \in Runs :
           /\ (lastWrite \in {"delete", "delete,merge,delete"} /\ MergeStep(r))
                => target' = target /\ staging' = <<>>
           /\ (lastWrite = "delete,merge" /\ DeleteStep(r))
                => target' = target /\ staging' = <<>> ]_vars

C3_Witness ==
  /\ lastWrite = "delete,merge,delete"
  /\ target # <<>>
  /\ staging = <<>>

\* C4: the step that completes a reconcile leaves the staging table empty,
\* whatever the MERGE matched or inserted.
C4_StagingEmptied ==
  [][ \A r \in Runs : DeleteStep(r) => staging' = <<>> ]_vars

C4_Witness ==
  \E r \in Runs :
    /\ pc[r] = "return"
    /\ calls[r].query = 1
    /\ Len(target) >= 2
    /\ staging = <<>>

\* C5: a MERGE over a staging table with distinct keys overwrites the columns
\* of every target row whose key is in staging with the staging row's values
\* and stamps it with the merge time, inserts exactly one row, with the
\* staging row's values, for every staging key the target lacked, and makes
\* the target's key set the union of the two key sets.
C5_UpdateOrInsert ==
  [][ \A r \in Runs :
        (MergeStep(r) /\ DistinctKeys(staging)) =>
          /\ clock' > clock
          /\ \A j \in 1..Len(staging) :
               IF staging[j].key \in KeysOf(target)
                 THEN \A i \in RowsOf(target, staging[j].key) :
                        target'[i] = [staging[j] EXCEPT !.last_sync = clock']
                 ELSE /\ Cardinality(RowsOf(target', staging[j].key)) = 1
                      /\ \A i \in RowsOf(target', staging[j].key) :
                           target'[i] = staging[j]
          /\ Len(target') = Len(target)
               + Cardinality(KeysOf(staging) \ KeysOf(target))
          /\ KeysOf(target') = KeysOf(target) \cup KeysOf(staging) ]_vars

C5_Witness ==
  /\ \E i \in 1..Len(target) : target[i].last_sync # NullTime
  /\ \E i \in 1..Len(target) : target[i].last_sync = NullTime
  /\ DistinctKeys(target)
  /\ \E r \in Runs : pc[r] = "delete"

\* C6: the page requests of one fetch are sent one at a time, the first at
\* offset 0 and each next one at the previous offset plus the page size the
\* previous response declared; the fetch stops at the first response with
\* offset + page size >= total.  Against a source that declares total 450
\* and page size 200 the requests are those at 0, 200 and 400.
C6_OffsetsAndStop ==
  \A r \in Runs :
    LET n == Len(requests[r])
        p == Len(pages[r]) IN
      /\ p <= n /\ n <= p + 1
      /\ n >= 1 => requests[r][1] = 0
      /\ \A i \in 1..(n - 1) :
           requests[r][i + 1] = requests[r][i] + pages[r][i].maxResults
      /\ \A i \in 1..p :
           /\ pages[r][i].startAt = requests[r][i]
           /\ (pages[r][i].startAt + pages[r][i].maxResults >= pages[r][i].total)
                => (i = p /\ n = p /\ pc[r] = "fetched")
      /\ (pc[r] = "fetch" /\ n >= 1) => startAt[r] = requests[r][n] + pages[r][n].maxResults
      /\ pc[r] = "fetch" => n = p
      /\ (\A i \in 1..p : pages[r][i].maxResults = PageSize
                          /\ pages[r][i].total = LargeTotal)
           => /\ n <= 3
              /\ \A i \in 1..n : requests[r][i] = PageSize * (i - 1)
              /\ pc[r] = "fetched" => n = 3

C6_Witness ==
  /\ pc[1] = "fetched"
  /\ requests[1] = <<0, PageSize, 2 * PageSize>>
  /\ \A i \in 1..3 : pages[1][i].total = LargeTotal

\* C7: a page request that gets a non-success response is the last request
\* of its run: the run is in its catch handler, has made no warehouse call
\* and has reported no loaded count, and its only further step is to exit
\* with code 1, leaving both tables and its rows where they were.
C7_FirstFailureAborts ==
  [][ /\ \A r \in Runs :
        (Len(requests'[r]) > Len(pages'[r])) =>
          /\ pc'[r] = "catch"
          /\ error'[r] = "fetch"
          /\ calls'[r] = NoCalls
          /\ inserted'[r] = -1
          /\ pc[r] = "catch" =>
               /\ requests'[r] = requests[r]
               /\ rows'[r] = rows[r]
      /\ \A r \in Runs :
           (pc[r] = "catch" /\ pc'[r] # "catch") =>
             /\ pc'[r] = "exited"
             /\ exitCode'[r] = 1
             /\ UNCHANGED <<staging, target>> ]_vars

C7_Witness ==
  \E r \in Runs :
    /\ pc[r] = "catch"
    /\ error[r] = "fetch"
    /\ Len(requests[r]) = 2
    /\ Len(pages[r]) = 1
    /\ rows[r] # <<>>

\* The stages of main(), in the order of its code.
StageOrder == <<"config", "secrets", "fetch", "load", "reconcile">>

IsPrefix(a, b) == Len(a) <= Len(b) /\ \A i \in 1..Len(a) : a[i] = b[i]

InSeq(x, seq) == \E i \in 1..Len(seq) : seq[i] = x

\* C8: a run completes its stages in the order config, (secrets,) fetch,
\* load, reconcile; it appends to staging only after its fetch has returned
\* the whole batch, calls reconcile only after its append has completed, and
\* calls reconcile exactly when insertToStaging returned a count above 0.
C8_StageOrder ==
  \A r \in Runs :
    /\ IsPrefix(stages[r], StageOrder)
    /\ calls[r].insert > 0 =>
         /\ InSeq("fetch", stages[r])
         /\ requests[r] = <<>>
    /\ calls[r].query > 0 =>
         /\ InSeq("load", stages[r])
         /\ calls[r].insert = 1
         /\ inserted[r] > 0
    /\ (inserted[r] > 0 /\ pc[r] \notin {"merge"}) => calls[r].query = 1
    /\ inserted[r] = 0 => /\ calls[r].query = 0
                          /\ pc[r] = "return"
    /\ InSeq("reconcile", stages[r]) => inserted[r] > 0

C8_Witness ==
  \E r \in Runs :
    /\ pc[r] = "return"
    /\ stages[r] = StageOrder
    /\ inserted[r] > 0
    /\ calls[r] = [insert |-> 1, query |-> 1]
    /\ prev.code = 0
    /\ prev.rows = <<>>

\* C9: a run exits with code 0 only from the end of main(), with every stage
\* up to load completed and reconcile completed too when rows were loaded;
\* a run in which a stage threw completes no further stage, makes no further
\* request or warehouse call, and exits with code 1.
C9_NoPartialSuccess ==
  [][ \A r \in Runs :
        /\ (pc'[r] = "exited" /\ pc[r] # "exited") =>
             /\ exitCode'[r] \in {0, 1}
             /\ exitCode'[r] = 0 <=>
                  /\ error[r] = "none"
                  /\ stages[r] = IF inserted[r] > 0 THEN StageOrder
                                 ELSE SubSeq(StageOrder, 1, 4)
                  /\ inserted[r] >= 0
             /\ exitCode'[r] = 1 <=> error[r] # "none"
        /\ (error[r] # "none" /\ pc'[r] # pc[r]) =>
             /\ pc[r] = "catch"
             /\ pc'[r] = "exited"
             /\ exitCode'[r] = 1
             /\ UNCHANGED <<target, staging>>
        /\ error'[r] # "none" =>
             /\ pc'[r] = "catch"
             /\ stages'[r] = stages[r]
             /\ error[r] # "none" =>
                  /\ calls'[r] = calls[r]
                  /\ requests'[r] = requests[r] ]_vars

C9_Witness ==
  /\ exitCode[1] = 1
  /\ exitCode[2] = 0
  /\ target # <<>>

\* C10: insertToStaging with an empty batch returns 0 and calls nothing; with
\* a non-empty batch it makes one insert call, which either appends the whole
\* batch and returns its length, or fails: the run is then in its catch
\* handler without a reconcile.
C10_OneBulkAppend ==
  [][ \A r \in Runs :
        LoadStep(r) =>
          IF rows[r] = <<>>
            THEN /\ inserted'[r] = 0
                 /\ calls'[r] = NoCalls
                 /\ staging' = staging
                 /\ pc'[r] = "return"
            ELSE /\ calls'[r] = [insert |-> 1, query |-> 0]
                 /\ \/ /\ staging' = staging \o rows[r]
                       /\ inserted'[r] = Len(rows[r])
                       /\ pc'[r] = "merge"
                    \/ /\ staging' = staging
                       /\ inserted'[r] = -1
                       /\ pc'[r] = "catch"
                       /\ error'[r] = "load" ]_vars

C10_Witness ==
  \E r, q \in Runs :
    /\ pc[r] = "catch" /\ error[r] = "load" /\ calls[r].query = 0
    /\ pc[q] = "merge" /\ inserted[q] = MaxBatch /\ Len(staging) = MaxBatch

\* Run r has read an environment in which the project identifier or the
\* SINCE override fails its validation.
InvalidConfig(r) ==
  /\ config[r] # NoConfig
  /\ \/ ~validateGCPIdentifier(config[r].project)
     \/ config[r].sinceEnv # Unset /\ ~validateISO8601(config[r].sinceEnv)

LatestFetched(earlier, later, k) ==
  IF RowsOf(later, k) # {}
    THEN later[CHOOSE i \in RowsOf(later, k) : \A j \in RowsOf(later, k) : j <= i]
    ELSE earlier[CHOOSE i \in RowsOf(earlier, k) :
                   \A j \in RowsOf(earlier, k) : j <= i]

\* C12: when a run has failed in reconcile after appending its batch, the
\* next run that completes successfully leaves staging empty and the target
\* with exactly one row, holding the values fetched last, for every key of
\* the two batches.
C12_RerunIsSafe ==
  \A r \in Runs :
    ( /\ pc[r] = "return"
      /\ prev.code = 1
      /\ prev.error = "reconcile" )
    => /\ staging = <<>>
       /\ \A k \in KeysOf(prev.rows) \cup KeysOf(rows[r]) :
            /\ Cardinality(RowsOf(target, k)) = 1
            /\ \A i \in RowsOf(target, k) :
                 /\ target[i].summary = LatestFetched(prev.rows, rows[r], k).summary
                 /\ target[i].updated = LatestFetched(prev.rows, rows[r], k).updated

\* C13: once two runs that share the tables have both completed
\* successfully, in whatever order their steps were taken, every key either
\* of them appended to staging has a row in the target.
C13_BothBatchesMerged ==
  \A r \in Runs :
    ( /\ pc[r] = "return"
      /\ prev.code = 0
      /\ \A q \in Runs \ {r} : exitCode[q] = 0 )
    => KeysOf(prev.rows) \cup KeysOf(rows[r]) \subseteq KeysOf(target)

\* The normalized columns of the rows of a table: every column the fetcher
\* fills from the issue.
Normalized(tbl) ==
  { [key |-> tbl[i].key, summary |-> tbl[i].summary, updated |-> tbl[i].updated] :
      i \in 1..Len(tbl) }

\* The target after batch A and then batch B are each appended to an empty
\* staging table and reconciled.
ReconcileBoth(A, B) == Merge(Merge(<<>>, A, 1), B, 2)

\* C14: when batch A and then batch B have been reconciled into an empty
\* target by two successful runs, the target's normalized columns are those
\* that reconciling B and then A gives, and when A = B they are those that
\* reconciling A once gives.
C14_CommutativeIdempotent ==
  \A r \in Runs :
    ( /\ pc[r] = "return"
      /\ prev.code = 0
      /\ prev.rows # <<>>
      /\ rows[r] # <<>> )
    => /\ Normalized(target) = Normalized(ReconcileBoth(rows[r], prev.rows))
       /\ prev.rows = rows[r] =>
            /\ Normalized(target) = Normalized(Merge(<<>>, rows[r], 1))
            /\ Len(target) = Len(Merge(<<>>, rows[r], 1))

\* What a Jira search can answer: no issue twice on one page, every page in
\* ascending order of `updated`, and an issue that comes again on a later
\* page has been updated since.
PlausiblePages(pageSeq) ==
  /\ \A p \in 1..Len(pageSeq) :
       \A i, j \in 1..Len(pageSeq[p]) :
         i < j => /\ pageSeq[p][i].key # pageSeq[p][j].key
                  /\ pageSeq[p][i].updated <= pageSeq[p][j].updated
  /\ \A p, q \in 1..Len(pageSeq) :
       \A i \in 1..Len(pageSeq[p]), j \in 1..Len(pageSeq[q]) :
         (p < q /\ pageSeq[p][i].key = pageSeq[q][j].key)
           => pageSeq[p][i].updated < pageSeq[q][j].updated

\* C15: the batch fetchIssuesSince has gathered holds at most one record per
\* issue key, whatever pages Jira answered with.
C15_OneRecordPerKey ==
  \A r \in Runs : PlausiblePages(received[r]) => DistinctKeys(rows[r])

HasKey(x) == x.key \notin {NULL, ""}

\* C16: while a fetch gathers its batch, the batch is exactly the issues
\* received that have a key, in page order, each with the issue's values; and
\* no row of a batch, of staging or of the target lacks a key.
C16_KeylessDropped ==
  \A r \in Runs :
    /\ (pc[r] \in {"fetch", "fetched"} \/ (pc[r] = "catch" /\ error[r] = "fetch")) =>
         LET kept == SelectSeq(Flatten(received[r]), HasKey) IN
           /\ Len(rows[r]) = Len(kept)
           /\ \A i \in 1..Len(kept) :
                /\ rows[r][i].key = kept[i].key
                /\ rows[r][i].summary = kept[i].summary
                /\ rows[r][i].updated = kept[i].updated
    /\ \A i \in 1..Len(rows[r]) : HasKey(rows[r][i])
    /\ \A i \in 1..Len(staging) : HasKey(staging[i])
    /\ \A i \in 1..Len(target) : HasKey(target[i])

C16_Witness ==
  \E r \in Runs :
    /\ pc[r] = "fetched"
    /\ Len(received[r]) = 2
    /\ \E i \in 1..Len(received[r][1]) : received[r][1][i].key = ""
    /\ \E i \in 1..Len(received[r][2]) : HasKey(received[r][2][i])
    /\ target # <<>>

\* C17: when the run before failed during its page requests after it had
\* gathered the first issues of its window, the batch the
\* next run fetches with the default lower bound holds every issue of the
\* failed run's window that the failed run had not gathered.
C17_NextRunCoversTail ==
  \A r \in Runs :
    ( /\ pc[r] = "fetched"
      /\ config[r].sinceEnv = Unset
      /\ prev.code = 1
      /\ prev.error = "fetch"
      /\ prev.jql # <<>>
      /\ prev.rows # <<>> )
    => \A i \in 1..Len(Matching(jira.site, prev.jql)) :
         Matching(jira.site, prev.jql)[i].key \notin KeysOf(prev.rows)
           => Matching(jira.site, prev.jql)[i].key \in KeysOf(rows[r])

\* The lower bound run r uses: main's sinceIso before the query is built, the
\* one inside the query after.
LowerBound(r) == IF pc[r] = "secrets" THEN sinceIso[r] ELSE jql[r]

\* C18: in a run past main's checks, with SINCE unset or empty the lower
\* bound is a 24-character timestamp that both validators accept, that
\* denotes the instant 3600 s before the run's Date.now() and carries its
\* milliseconds; with SINCE set the lower bound is SINCE itself.
C18_DefaultLowerBound ==
  \A r \in Runs :
    pc[r] \in {"secrets", "fetch", "fetched"} =>
      IF config[r].sinceEnv = Unset
        THEN /\ Len(LowerBound(r)) = 24
             /\ validateISO8601(LowerBound(r))
             /\ isIso8601Z(LowerBound(r))
             /\ getTime(LowerBound(r)) = config[r].now - 3600
             /\ SubSeq(LowerBound(r), 21, 23) = Pad3(config[r].ms)
        ELSE LowerBound(r) = config[r].sinceEnv

C18_Witness ==
  /\ pc[1] = "fetch"
  /\ config[1].sinceEnv = Unset
  /\ config[1].now = StartTime
  /\ jql[1] = <<"2", "0", "2", "5", "-", "0", "5", "-", "3", "1", "T",
                "2", "3", ":", "3", "0", ":", "0", "0", ".", "0", "0", "7", "Z">>

AllDigits(s) == \A i \in 1..Len(s) : s[i] \in Digits

\* YYYY-MM-DDTHH:MM:SS, an optional fraction, Z.
StrictUtcShape(s) ==
  /\ Len(s) >= 20
  /\ AllDigits(SubSeq(s, 1, 4)) /\ SubSeq(s, 5, 5) = <<"-">>
  /\ AllDigits(SubSeq(s, 6, 7)) /\ SubSeq(s, 8, 8) = <<"-">>
  /\ AllDigits(SubSeq(s, 9, 10)) /\ SubSeq(s, 11, 11) = <<"T">>
  /\ AllDigits(SubSeq(s, 12, 13)) /\ SubSeq(s, 14, 14) = <<":">>
  /\ AllDigits(SubSeq(s, 15, 16)) /\ SubSeq(s, 17, 17) = <<":">>
  /\ AllDigits(SubSeq(s, 18, 19))
  /\ \/ SubSeq(s, 20, Len(s)) = <<"Z">>
     \/ /\ Len(s) >= 22
        /\ s[20] = "."
        /\ AllDigits(SubSeq(s, 21, Len(s) - 1))
        /\ s[Len(s)] = "Z"

\* Run r got past the checks of main().
PastConfig(r) == stages[r] # <<>>

\* C19: in either revision a run gets past main's check of a set SINCE only
\* if SINCE has the strict shape; "2025-1-1T00:00:00Z" is refused, and
\* "2025-01-01T00:00:00.123Z" is accepted whenever the project identifier is.
C19_StrictShape ==
  \A r \in Runs :
    /\ (PastConfig(r) /\ config[r].sinceEnv # Unset)
         => StrictUtcShape(config[r].sinceEnv)
    /\ (config[r] # NoConfig /\ config[r].sinceEnv = SinceUnpadded)
         => pc[r] = "catch" /\ error[r] = "config"
    /\ ( /\ config[r] # NoConfig
         /\ config[r].sinceEnv = SinceMillis
         /\ config[r].project = <<"d", "j", "-", "1">> )
         => PastConfig(r)

C19_Witness ==
  /\ deploy.revision = 2
  /\ pc[1] = "fetch"
  /\ jql[1] = SinceMillis

\* Both derived columns of every row of the table are null.
DerivedNull(tbl) ==
  \A i \in 1..Len(tbl) :
    tbl[i].sla_breached = NULL /\ tbl[i].last_sync = NullTime

\* C20: every row of a fetched batch, and so every row appended to staging,
\* has sla_breached and last_sync null; a step gives a derived column of a
\* target row a non-null value only if it is a MERGE statement, and the
\* append to staging leaves the target as it is.
C20_DerivedColumnsNullAtIngestion ==
  [][ /\ \A r \in Runs : DerivedNull(rows'[r])
      /\ DerivedNull(staging')
      /\ \A r \in Runs : LoadStep(r) => target' = target
      /\ ( \E i \in 1..Len(target') :
             /\ target'[i].sla_breached # NULL \/ target'[i].last_sync # NullTime
             /\ \/ i > Len(target)
                \/ target'[i].sla_breached # target[i].sla_breached
                \/ target'[i].last_sync # target[i].last_sync )
           => \E r \in Runs : MergeStep(r) ]_vars

C20_Witness ==
  \E r \in Runs :
    /\ pc[r] = "delete"
    /\ DerivedNull(rows[r])
    /\ staging # <<>>
    /\ \E i \in 1..Len(target) : target[i].last_sync # NullTime
    /\ \E i \in 1..Len(target) : target[i].last_sync = NullTime

\* A value is set when it is a string that is not empty.
IsSet(v) == v.type = "string" /\ v.chars # <<>>

HasParent(cs) ==
  cs.type = "object" /\ "value" \in DOMAIN cs /\ IsSet(cs.value)

HasChild(cs) ==
  /\ cs.type = "object" /\ "child" \in DOMAIN cs
  /\ cs.child.type = "object" /\ "value" \in DOMAIN cs.child
  /\ IsSet(cs.child.value)

\* C21: cascadingToString returns "<parent> > <child>" when both levels
\* are set, "<parent>" when only the parent is set, and null in every other
\* case: neither set, a child without a parent, a missing input or one that
\* is not an object.
C21_CascadingToString ==
  (field.mapper = "cascadingToString" /\ column # Pending) =>
    LET cs == field.value IN
      column = IF HasParent(cs) /\ HasChild(cs)
                 THEN Str(cs.value.chars \o <<" ", ">", " ">>
                          \o cs.child.value.chars)
               ELSE IF HasParent(cs) THEN Str(cs.value.chars)
               ELSE Null

C21_Witness ==
  /\ field.value = Cascading(Str(<<"A">>), Option(Str(<<"B">>)))
  /\ column = Str(<<"A", " ", ">", " ", "B">>)

\* The positions of the options of a multi-select that carry a value.
Kept(items) ==
  { i \in 1..Len(items) :
      /\ items[i].type = "object" /\ "value" \in DOMAIN items[i]
      /\ IsSet(items[i].value) }

\* The j-th smallest member of a set of positions.
Nth(S, j) == CHOOSE i \in S : Cardinality({ k \in S : k < i }) = j - 1

\* C22: multiSelectToArray never returns an empty list.  It returns null
\* when the input is not an array, is an empty array or holds only falsy or
\* empty values; otherwise it returns the non-empty option values in their
\* original order, the falsy ones removed.
C22_MultiSelectToArray ==
  (field.mapper = "multiSelectToArray" /\ column # Pending) =>
    LET ms == field.value IN
      /\ column # Array(<<>>)
      /\ IF ms.type # "array" THEN column = Null
         ELSE IF Kept(ms.items) = {} THEN column = Null
         ELSE /\ column.type = "array"
              /\ Len(column.items) = Cardinality(Kept(ms.items))
              /\ \A j \in 1..Len(column.items) :
                   column.items[j] = ms.items[Nth(Kept(ms.items), j)].value

C22_Witness ==
  /\ field.value = Array(<<Option(Str(<<>>)), Option(Str(<<"B">>))>>)
  /\ column = Array(<<Str(<<"B">>)>>)

\* The request carries the configured secret as its Bearer token.
Authorized ==
  /\ processEnv.SECRET # Unset
  /\ request.authorization = Bearer(processEnv.SECRET)

\* C23: the endpoint starts a job only for a request whose Authorization
\* header carries a Bearer token equal to the configured secret.  Every
\* other request (no header, another scheme, a wrong or empty token, no
\* secret configured) is answered 401 Unauthorized and causes no outbound
\* call: no metadata-token fetch and no job-run request.
C23_BearerSecretOnly ==
  (handler # "idle" /\ ~Authorized) =>
    /\ response = [status |-> 401, body |-> "Unauthorized"]
    /\ outbound = <<>>
    /\ handler = "done"

C23_Witness ==
  /\ handler = "done"
  /\ processEnv.SECRET = Secret
  /\ request.authorization = Bearer(<<"s", "2">>)
  /\ Misconfiguration(processEnv.PROJECT, processEnv.REGION, processEnv.JOB) = "ok"
  /\ response.status = 401

\* PROJECT, REGION and JOB are all present and well-formed.
WellConfigured ==
  \A name \in {"PROJECT", "REGION", "JOB"} :
    /\ processEnv[name] # Unset
    /\ \A i \in 1..Len(processEnv[name]) :
         processEnv[name][i] \in LowerCase \cup Digits \cup {"_", "-"}

\* C24: for an authorized request to a well-configured endpoint, a
\* non-empty `since` that fails the strict ISO-8601 UTC validation is
\* answered with an error and nothing is sent; otherwise the endpoint goes on
\* to start the job, and the job-run request it sends carries exactly one
\* override, SINCE = the value of `since`, when `since` is valid and no
\* override when `since` is absent or empty.
C24_SinceOverride ==
  (handler # "idle" /\ Authorized /\ WellConfigured) =>
    IF request.since # <<>> /\ ~validateISO8601(request.since)
      THEN /\ response.status = 400
           /\ outbound = <<>>
           /\ handler = "done"
      ELSE /\ outbound # <<>> /\ outbound[1] = MetadataCall
           /\ Len(outbound) <= 2
           /\ handler = "run" => Len(outbound) = 2
           /\ response.status = 200 => Len(outbound) = 2
           /\ Len(outbound) = 2 =>
                /\ outbound[2].to = "run"
                /\ outbound[2].body.containerOverrides =
                     IF request.since = <<>> THEN <<>>
                     ELSE << [name |-> processEnv.JOB,
                              env |-> << [name |-> "SINCE",
                                          value |-> request.since] >>] >>

C24_Witness ==
  /\ handler = "done"
  /\ response.status = 200
  /\ request.since = SinceValid
  /\ outbound[2].body.containerOverrides[1].env[1].value = SinceValid

\* C25: when PROJECT, REGION or JOB is missing or malformed, the response
\* to an authorized request is a server error whose body is the same generic
\* message whichever identifier failed, and nothing is sent.
C25_GenericMisconfiguration ==
  (handler # "idle" /\ Authorized /\ ~WellConfigured) =>
    /\ response = [status |-> 500, body |-> "Server misconfiguration"]
    /\ outbound = <<>>

\* C26: when runs follow one another, a run that comes to the end of main()
\* leaves no row in staging, whichever run put it there: also a run that
\* fetched nothing after an earlier run had failed between its load and the
\* end of its reconcile.
C26_NoLeftoverAfterSuccess ==
  \A r \in Runs : pc[r] = "return" => staging = <<>>

\* C27: whatever valid name BQ_STAGING_TABLE holds, a run's reconcile reads
\* and clears the table its loader appended to: when a run that loaded rows
\* comes to the end of main(), every key it loaded is in the target and no
\* staging table holds a row.
C27_ReconcileReadsLoadedTable ==
  \A r \in Runs :
    (pc[r] = "return" /\ inserted[r] > 0) =>
      /\ KeysOf(rows[r]) \subseteq KeysOf(target)
      /\ staging = <<>>
      /\ custom = <<>>

\* C28: however overlapping runs interleave, a MERGE never replaces a
\* target row by a version whose `updated` is older than the one the row
\* holds (stated for tables that hold each key once).
C28_NeverOlderVersion ==
  [][ \A r \in Runs :
        (MergeStep(r) /\ DistinctKeys(target) /\ DistinctKeys(staging)) =>
          \A i \in 1..Len(target) :
            /\ target'[i].key = target[i].key
            /\ target'[i].updated >= target[i].updated ]_vars

\* C29: a fetch that completes returns every keyed issue that matched the
\* query when its first page was requested and that has not been edited
\* since, even when other issues are edited between two page requests and
\* move to the end of the ordering.
C29_UneditedIssuesFetched ==
  \A r \in Runs :
    pc[r] = "fetched" =>
      \A i \in 1..Len(Site) :
        ( /\ InSeq(Site[i], jira.site)
          /\ HasKey(Site[i])
          /\ Matching(<<Site[i]>>, jql[r]) # <<>> )
        => Site[i].key \in KeysOf(rows[r])

\* C30: a fetch ends after finitely many page requests whatever successful
\* responses it gets over a bounded result set: every response that does not
\* end the loop moves the offset of the next request forward, also one that
\* declares a page size of 0 or leaves the page size out while more results
\* remain.
C30_EveryPageAdvances ==
  [][ \A r \in Runs :
        (pc[r] = "fetch" /\ pc'[r] = "fetch" /\ pages'[r] # pages[r])
          => startAt'[r] > startAt[r] ]_vars

\* C31: the statements of a reconcile leave every target row whose key does
\* not occur in staging as it is, in every column, last_sync included, and
\* leave the tables other than the target and jsm_tickets_staging as they
\* are.
C31_ReconcileFrame ==
  [][ \A r \in Runs :
        (pc[r] \in {"merge", "delete"} /\ pc'[r] # pc[r]) =>
          /\ custom' = custom
          /\ Len(target') >= Len(target)
          /\ \A i \in 1..Len(target) :
               target[i].key \notin KeysOf(staging) => target'[i] = target[i] ]_vars

C31_Witness ==
  \E r \in Runs :
    /\ pc[r] = "delete"
    /\ staging # <<>>
    /\ clock = 2
    /\ \E i \in 1..Len(target) :
         target[i].key \notin KeysOf(staging) /\ target[i].last_sync = NullTime

\* C32: every target row has sla_breached null.  A MERGE gives the rows
\* it inserts last_sync null, gives every row it matches a last_sync that is
\* not null and the staging row's sla_breached, and leaves last_sync of the
\* other rows as it is; no other step changes last_sync.  So last_sync is
\* non-null exactly for the rows a MERGE has matched since their insertion.
C32_DerivedColumnsAfterReconcile ==
  [][ /\ \A i \in 1..Len(target') : target'[i].sla_breached = NULL
      /\ \A r \in Runs :
           MergeStep(r) =>
             \A i \in 1..Len(target') :
               IF i > Len(target) THEN target'[i].last_sync = NullTime
               ELSE IF target[i].key \in KeysOf(staging)
                 THEN /\ target'[i].last_sync # NullTime
                      /\ \E j \in 1..Len(staging) :
                           /\ staging[j].key = target[i].key
                           /\ target'[i].sla_breached = staging[j].sla_breached
               ELSE target'[i].last_sync = target[i].last_sync
      /\ (\A r \in Runs : ~MergeStep(r)) =>
           /\ Len(target') = Len(target)
           /\ \A i \in 1..Len(target) :
                target'[i].last_sync = target[i].last_sync ]_vars

C32_Witness ==
  \E r \in Runs :
    /\ pc[r] = "return"
    /\ clock = 2
    /\ \E i \in 1..Len(target) :
         target[i].last_sync = 2 /\ target[i].sla_breached = NULL
    /\ \E i \in 1..Len(target) : target[i].last_sync = NullTime

\* C33: no step of any run removes a row from the target: every row keeps
\* its place and its key, so the set of keys in the target never shrinks.
C33_TargetNeverShrinks ==
  [][ /\ Len(target') >= Len(target)
      /\ \A i \in 1..Len(target) : target'[i].key = target[i].key
      /\ KeysOf(target) \subseteq KeysOf(target') ]_vars

C33_Witness ==
  /\ clock = 2
  /\ KeysOf(target) = Keys
  /\ \E i \in 1..Len(target) : target[i].last_sync = 2
  /\ \A r \in Runs : pc[r] = "exited"

(* ------------------- the weekly reports: fetching ---------------------- *)

\* The other components while the weekly reports run: untouched.
elsewhere == <<cadence, jira, deploy, mapper, trigger, runs>>

\* fetchWeeklyData is called: allRows = [], token = null, pageCount = 0.
FetchWeeklyData ==
  /\ weekly.state = "idle"
  /\ weekly' = [NotFetching EXCEPT !.state = "paging"]
  /\ UNCHANGED <<getPage, reporting, triggers, scheduling, elsewhere>>

\* The loop body calls jiraJqlGetPage({..., nextPageToken: token}).
CallGetPage ==
  /\ weekly.state = "paging"
  /\ getPage.state = "idle"
  /\ getPage' = [NoCall EXCEPT !.state = "running",
                               !.nextPageToken = weekly.token]
  /\ UNCHANGED <<weekly, reporting, triggers, scheduling, elsewhere>>

\* One pass of jiraJqlGetPage's loop: one UrlFetchApp.fetch and what the
\* code does with its result. Leaving the loop by its condition would
\* return undefined.
GetPageAttempt ==
  /\ getPage.state = "running"
  /\ \E resp \in Responses :
       LET out == Outcome(getPage.attempt, resp)
           got == [getPage EXCEPT !.fetched = Append(@, resp)]
       IN getPage' =
            CASE out = "return" ->
                   [got EXCEPT !.state = "returned", !.page = PageOf(resp)]
              [] out = "throw" -> [got EXCEPT !.state = "thrown"]
              [] OTHER ->
                   [got EXCEPT
                      !.sleeps = Append(@, Backoff(getPage.attempt)),
                      !.attempt = @ + 1,
                      !.state = IF getPage.attempt + 1 < RETRY_ATTEMPTS
                                  THEN "running" ELSE "undefined"]
  /\ UNCHANGED <<weekly, reporting, triggers, scheduling, elsewhere>>

\* The rest of fetchWeeklyData's loop body and the loop's condition:
\* the rows of the page, token = page.nextPageToken, pageCount++,
\* while (token && pageCount < 50).
TakePage ==
  /\ weekly.state = "paging"
  /\ getPage.state = "returned"
  /\ LET page == getPage.page
         pageCount == weekly.pageCount + 1
     IN weekly' =
          [state |-> IF LoopsOn(page.nextPageToken, pageCount)
                       THEN "paging" ELSE "done",
           token |-> page.nextPageToken,
           pageCount |-> pageCount,
           allRows |-> weekly.allRows + page.issues,
           page |-> page]
  /\ getPage' = NoCall
  /\ UNCHANGED <<reporting, triggers, scheduling, elsewhere>>

\* jiraJqlGetPage threw (or returned undefined, whose .issues throws):
\* fetchWeeklyData has no try, the error leaves it.
PageFails ==
  /\ weekly.state = "paging"
  /\ getPage.state \in {"thrown", "undefined"}
  /\ weekly' = [weekly EXCEPT !.state = "failed"]
  /\ UNCHANGED <<getPage, reporting, triggers, scheduling, elsewhere>>

\* One call of fetchWeeklyData about to be made; nothing else runs.
InitWeekly ==
  /\ Start
  /\ MapperIdle
  /\ TriggerIdle
  /\ SheetIdle
  /\ cadence = "none"
  /\ jira = AnyAnswer({}, {})
  /\ deploy = Usual

NextWeekly ==
  FetchWeeklyData \/ CallGetPage \/ GetPageAttempt \/ TakePage \/ PageFails

SpecWeekly == InitWeekly /\ [][NextWeekly]_vars

(* ------------------- the weekly reports: sending ----------------------- *)

\* What one call of fetchWeeklyData gives generateAllWeeklyReports:
\* allRows.length, or an error (-1); SpecWeekly follows the call itself.
FetchResults == {-1, 0, 1, 2}

\* generateAllWeeklyReports up to `let successCount = 0`: the webhooks are
\* loaded, both weeks are fetched, no data of this week throws, and the
\* reports of the analyses without .error are pushed.
PrepareReports ==
  /\ reporting.state = "idle"
  /\ \E thisWeekCount \in FetchResults, lastWeekCount \in FetchResults :
       IF thisWeekCount = -1
         THEN reporting' =
                [reporting EXCEPT !.state = "done",
                                  !.alert = [NoAlert EXCEPT !.kind = "failed"]]
       ELSE IF lastWeekCount = -1 \/ thisWeekCount = 0
         THEN reporting' =
                [reporting EXCEPT !.state = "done",
                                  !.thisWeekCount = thisWeekCount,
                                  !.alert = [NoAlert EXCEPT !.kind = "failed"]]
       ELSE reporting' =
              [reporting EXCEPT !.state = "sending",
                                !.thisWeekCount = thisWeekCount,
                                !.reports = PreparedReports(reporting.errors)]
  /\ UNCHANGED <<getPage, weekly, triggers, scheduling, elsewhere>>

\* One call of forEach's callback: the next report, its try and its catch.
SendReport ==
  /\ reporting.state = "sending"
  /\ Len(reporting.sent) < Len(reporting.reports)
  /\ \E answer \in SlackAnswers :
       LET channel == reporting.reports[Len(reporting.sent) + 1]
           webhook == reporting.webhooks[channel]
           outcome == SendOutcome(webhook, answer)
       IN reporting' =
            [reporting EXCEPT
               !.sent = Append(@, [channel |-> channel, outcome |-> outcome]),
               !.successCount = Counted(@, outcome)]
  /\ UNCHANGED <<getPage, weekly, triggers, scheduling, elsewhere>>

\* forEach has returned: alert(`... Reports sent: ${successCount}/${reports.length}`).
AlertComplete ==
  /\ reporting.state = "sending"
  /\ Len(reporting.sent) = Len(reporting.reports)
  /\ reporting' =
       [reporting EXCEPT
          !.state = "done",
          !.alert = [kind |-> "complete",
                     successCount |-> reporting.successCount,
                     reports |-> Len(reporting.reports)]]
  /\ UNCHANGED <<getPage, weekly, triggers, scheduling, elsewhere>>

\* One call of generateAllWeeklyReports about to be made: which webhooks
\* the script properties hold, and which analyses will have an .error.
InitReports ==
  /\ Start
  /\ MapperIdle
  /\ TriggerIdle
  /\ cadence = "none"
  /\ jira = AnyAnswer({}, {})
  /\ deploy = Usual
  /\ getPage = NoCall
  /\ weekly = NotFetching
  /\ triggers = <<>>
  /\ scheduling = NotScheduling
  /\ \E webhooks \in [ChannelSet -> {"", "https://hooks"}],
        errors \in SUBSET ChannelSet :
       reporting = [NotReporting EXCEPT !.webhooks = webhooks,
                                        !.errors = errors]

NextReports == PrepareReports \/ SendReport \/ AlertComplete

SpecReports == InitReports /\ [][NextReports]_vars

(* ------------------- the weekly reports: scheduling -------------------- *)

\* scheduleWeeklyReports, called by user: the forEach deletes, then the
\* new trigger is created; an error of deleteTrigger or of create ends
\* the try where it stands and is caught.
ScheduleWeeklyReports(user) ==
  /\ \/ /\ triggers' =
             Append(DeleteFirst(triggers, user, DoomedCount(triggers, user)),
                    NewTrigger(user))
        /\ scheduling' = [call |-> "schedule", user |-> user, ended |-> "ok"]
     \/ \E k \in 0..DoomedCount(triggers, user) :
          /\ triggers' = DeleteFirst(triggers, user, k)
          /\ scheduling' =
               [call |-> "schedule", user |-> user, ended |-> "failed"]
  /\ UNCHANGED <<getPage, weekly, reporting, elsewhere>>

\* removeSchedule, called by user.
RemoveSchedule(user) ==
  /\ \/ /\ triggers' =
             DeleteFirst(triggers, user, DoomedCount(triggers, user))
        /\ scheduling' = [call |-> "remove", user |-> user, ended |-> "ok"]
     \/ \E k \in 0..(DoomedCount(triggers, user) - 1) :
          /\ triggers' = DeleteFirst(triggers, user, k)
          /\ scheduling' =
               [call |-> "remove", user |-> user, ended |-> "failed"]
  /\ UNCHANGED <<getPage, weekly, reporting, elsewhere>>

\* Sequences of at most n triggers.
TriggerLists(n) ==
  UNION { [1..k -> [owner : Users, handler : Handlers]] : k \in 0..n }

\* The project with the triggers it has before the first call.
InitSchedule ==
  /\ Start
  /\ MapperIdle
  /\ TriggerIdle
  /\ cadence = "none"
  /\ jira = AnyAnswer({}, {})
  /\ deploy = Usual
  /\ getPage = NoCall
  /\ weekly = NotFetching
  /\ reporting = NotReporting
  /\ scheduling = NotScheduling
  /\ triggers \in TriggerLists(MaxTriggers)

NextSchedule ==
  \/ \E user \in Users : ScheduleWeeklyReports(user)
  \/ \E user \in Users : RemoveSchedule(user)

SpecSchedule == InitSchedule /\ [][NextSchedule]_vars

(* ------------------- the weekly reports: properties -------------------- *)

\* The response is a page: a 200 whose content JSON.parse takes.
IsPage(resp) == resp.code = 200 /\ resp.body = "page"

\* C34: jiraJqlGetPage makes at most RETRY_ATTEMPTS (3) requests for one
\* page; it returns the page of the first 200 response, has slept 1000 ms
\* and then 2000 ms between consecutive attempts and nowhere else, throws
\* once the third attempt has failed, and never returns undefined.
C34_AtMostThreeAttemptsWithBackoff ==
  LET fetched == getPage.fetched
      n == Len(fetched)
  IN /\ n <= 3
     /\ getPage.state # "undefined"
     /\ getPage.sleeps \in {<<>>, <<1000>>, <<1000, 2000>>}
     /\ getPage.state = "running" => Len(getPage.sleeps) = n
     /\ getPage.state \in {"returned", "thrown"} =>
          n >= 1 /\ Len(getPage.sleeps) = n - 1
     /\ \A i \in 1..n :
          IsPage(fetched[i]) =>
            /\ i = n
            /\ getPage.state = "returned"
            /\ getPage.page = PageOf(fetched[i])
     /\ getPage.state = "returned" => IsPage(fetched[n])
     /\ (n = 3 /\ ~IsPage(fetched[3])) => getPage.state = "thrown"

\* The page comes with the third request, after a 500 and a 429.
C34_Witness ==
  /\ getPage.state = "returned"
  /\ Len(getPage.fetched) = 3
  /\ getPage.fetched[1].code = 500
  /\ getPage.fetched[2].code = 429
  /\ getPage.sleeps = <<1000, 2000>>
  /\ getPage.page.nextPageToken = "t1"

\* A response that is neither a 200 nor transient (5xx, 429).
IsPermanentError(resp) ==
  resp.code # 0 /\ resp.code # 200 /\ resp.code < 500 /\ resp.code # 429

\* C35: only transient failures are retried: a response whose status is
\* neither 200, nor >= 500, nor 429 makes jiraJqlGetPage throw with that
\* request as its last one: no backoff sleep follows it and no further
\* attempt is made (so one request in all when it is the first response).
C35_PermanentErrorThrowsAtOnce ==
  \A i \in 1..Len(getPage.fetched) :
    IsPermanentError(getPage.fetched[i]) =>
      /\ i = Len(getPage.fetched)
      /\ getPage.state = "thrown"
      /\ Len(getPage.sleeps) = i - 1

\* C36: fetchWeeklyData pages by continuation token only: its first
\* request carries no token, each later request carries exactly the token
\* of the previous response (every attempt for a page carries the same
\* one), the loop stops at the first response without a token, and one
\* call takes at most 50 pages.
C36_TokenPagination ==
  [][ /\ weekly'.pageCount <= 50
      /\ (getPage.state = "idle" /\ getPage'.state = "running") =>
           /\ weekly.pageCount < 50
           /\ IF weekly.pageCount = 0
                THEN getPage'.nextPageToken = NULL
                ELSE /\ getPage'.nextPageToken = weekly.page.nextPageToken
                     /\ Truthy(getPage'.nextPageToken)
      /\ (getPage.state = "running" /\ getPage'.state # "idle") =>
           getPage'.nextPageToken = getPage.nextPageToken
      /\ (getPage.state = "returned" /\ getPage'.state = "idle") =>
           /\ weekly'.pageCount = weekly.pageCount + 1
           /\ weekly'.page = getPage.page
           /\ weekly'.state =
                IF getPage.page.nextPageToken \in {"t1", "t2"}
                     /\ weekly.pageCount < 49
                  THEN "paging" ELSE "done"
    ]_vars

\* The fiftieth page still names a next one, and the call ends there.
C36_Witness ==
  /\ weekly.state = "done"
  /\ weekly.pageCount = 50
  /\ weekly.token = "t2"
  /\ weekly.allRows = 50

(* ------------------- the trigger endpoint and the job ------------------ *)

\* The SINCE values the endpoint has put into job-run requests.
ForwardedSince ==
  { outbound[i].body.containerOverrides[1].env[1].value :
      i \in { k \in 1..Len(outbound) :
                /\ outbound[k].to = "run"
                /\ outbound[k].body.containerOverrides # <<>> } }

\* C37: every `since` the trigger endpoint accepts and forwards as the
\* SINCE override passes the puller's own validation of SINCE, in main()
\* of both revisions and in fetchIssuesSince: a job the endpoint starts
\* never fails on the validation of its lower bound.
C37_ForwardedSinceAcceptedByJob ==
  \A since \in ForwardedSince :
    LET project == <<"d", "j", "-", "1">> IN
      /\ since # Unset
      /\ ConfigError(project, DefaultDataset, DefaultStagingTable,
                     DefaultLocation, since) = "ok"
      /\ ConfigErrorEarlier(project, DefaultDataset, since) = "ok"
      /\ validateISO8601(SinceIso(since, StartTime, 0))

\* The endpoint has started a job with SINCE = "2025-01-01T00:00:00.123Z".
C37_Witness ==
  /\ SinceMillis \in ForwardedSince
  /\ response = [status |-> 200, body |-> "started"]

(* ------------------- the weekly reports: sending, properties ----------- *)

\* How many of the first n reports were sent.
RECURSIVE SentAmong(_)
SentAmong(n) ==
  IF n = 0 THEN 0
  ELSE SentAmong(n - 1) + (IF reporting.sent[n].outcome = "sent" THEN 1 ELSE 0)

\* C38: in generateAllWeeklyReports a report that cannot be sent (no
\* webhook, or Slack does not answer 200) does not stop the others: the
\* prepared reports are attempted once each, in order, all of them before
\* the alert; the count the alert shows is the number of sends that
\* succeeded, at most the number of reports; and when this week's fetch
\* gives no issue, nothing is sent.
C38_EveryReportAttempted ==
  LET sent == reporting.sent
      reports == reporting.reports
  IN /\ Len(sent) <= Len(reports)
     /\ \A i \in 1..Len(sent) : sent[i].channel = reports[i]
     /\ \A i \in 1..Len(reports), j \in 1..Len(reports) :
          reports[i] = reports[j] => i = j
     /\ reporting.successCount = SentAmong(Len(sent))
     /\ reporting.successCount <= Len(reports)
     /\ \A i \in 1..Len(sent) :
          sent[i].outcome = "sent" => reporting.webhooks[sent[i].channel] # ""
     /\ reporting.state = "sending" =>
          reports = SelectSeq(Channels, LAMBDA c : c \notin reporting.errors)
     /\ reporting.alert.kind = "complete" =>
          /\ Len(sent) = Len(reports)
          /\ reporting.alert.successCount = SentAmong(Len(sent))
          /\ reporting.alert.reports = Len(reports)
     /\ reporting.thisWeekCount = 0 =>
          sent = <<>> /\ reporting.alert.kind # "complete"

\* The first report has no webhook, the second one fails at Slack, and
\* the two after them are sent: "Reports sent: 2/4".
C38_Witness ==
  /\ reporting.alert = [kind |-> "complete", successCount |-> 2, reports |-> 4]
  /\ reporting.sent[1].outcome = "unconfigured"
  /\ reporting.sent[2].outcome = "failed"
  /\ reporting.sent[3].outcome = "sent"
  /\ reporting.sent[4].outcome = "sent"

(* ------------------- the weekly reports: scheduling, properties -------- *)

\* The triggers of the handler, and those among them that user owns.
ReportTriggers(trigs) ==
  { i \in 1..Len(trigs) : trigs[i].handler = "generateAllWeeklyReports" }

OwnReportTriggers(trigs, user) ==
  { i \in ReportTriggers(trigs) : trigs[i].owner = user }

\* The triggers a call is not to touch, in their order.
Others(trigs, user) ==
  SelectSeq(trigs, LAMBDA t : ~(t.owner = user
                                /\ t.handler = "generateAllWeeklyReports"))

\* C39: after a successful call the project has exactly one trigger for
\* generateAllWeeklyReports (scheduleWeeklyReports, however often it is
\* called) or none (removeSchedule), and no call deletes a trigger of
\* another handler function.
C39_AtMostOneTrigger ==
  [][ /\ scheduling'.ended = "ok" =>
           Cardinality(ReportTriggers(triggers')) =
             IF scheduling'.call = "schedule" THEN 1 ELSE 0
      /\ SelectSeq(triggers', LAMBDA t : t.handler = "viewLogs")
           = SelectSeq(triggers, LAMBDA t : t.handler = "viewLogs")
    ]_vars

\* What the calls do ensure: after a successful call the calling user owns
\* exactly one trigger for generateAllWeeklyReports or none, and no call
\* touches a trigger of another handler function or of another user.
OneTriggerPerUser ==
  [][ \A user \in Users :
        scheduling'.user = user =>
          /\ scheduling'.ended = "ok" =>
               Cardinality(OwnReportTriggers(triggers', user)) =
                 IF scheduling'.call = "schedule" THEN 1 ELSE 0
          /\ Others(triggers', user) = Others(triggers, user)
    ]_vars

====
